---- MODULE Spec2Model ----
(***************************************************************************)
(* Appointment store / calendar synchronisation of the WhatsApp            *)
(* appointment bot: the sync coordinator (simple-sync-manager.js), the     *)
(* reconciliation service (utils/calendarSync.js), the calendar gateway    *)
(* (src/googleCalendar.js), the booking path of the bot                    *)
(* (src/appointmentBot.js) and the timers of the server (src/server.js).   *)
(*                                                                         *)
(* Time is counted in minutes.  An appointment's date is a day number and  *)
(* its time a minute of the day; an event's start is an instant (minutes   *)
(* UTC).  A NULL google_event_id is 0.  Every await of the code is a step  *)
(* boundary: what runs between two awaits is one action.                   *)
(***************************************************************************)
EXTENDS Integers, Sequences, FiniteSets, TLC

\* ---- bounds of the model ------------------------------------------------
MaxAppts == 2
MaxEvents == 5
StartTime == 600
Tasks == {"t1", "t2"}
Bookers == {"b1", "b2"}
Phones == {"p1", "p2"}
Dates == {1, 2}
Times == {540, 570}
FarDate == 40
ServerOffsets == {0, 330}
GateClock == {StartTime + 3, StartTime + 5}
SyncClock == {StartTime + 1439, StartTime + 1441, StartTime + 1500}
CycleClock == {StartTime + 720, StartTime + 1440, StartTime + 2160,
               StartTime + 2880}

\* ---- program constants --------------------------------------------------
minInterval == 5
configOffset == 330
defaultDuration == 30
recreateHours == 24
lookbackMinutes == 1440
windowDays == 30
MinutesPerDay == 1440
MinutesPerHour == 60

NoGrant == -1
NoReturn == -1

VARIABLES
    syncManager,    \* [isRunning, lastRun] of the SimpleSyncManager singleton
    now,            \* Date.now()
    serverOffset,   \* UTC offset of the server's local time zone
    appointments,   \* rows of the appointments table
    nextId,         \* next AUTOINCREMENT id
    events,         \* events of the provider's calendar
    nextEvt,        \* next event id the provider hands out
    task,           \* the sync entry points in flight
    book,           \* the confirmAppointment calls in flight
    sweep,          \* the maintenance script, a process of its own
    auth,           \* the gateway's credentials and its operation in flight
    startCalls,     \* the start() calls made by the step just taken
    lastGrant,      \* time of the latest start() = true since a forceReset
    grantGap,       \* time between the two latest start() = true
    conversation_states,  \* rows of the conversation_states table, by phone
    patients,       \* name column of the patients table, by phone
    inbound         \* the WhatsApp message being handled

vars == <<syncManager, now, serverOffset, appointments, nextId, events,
          nextEvt, task, book, sweep, auth, startCalls, lastGrant, grantGap,
          conversation_states, patients, inbound>>

chatVars == <<conversation_states, patients, inbound>>

storeVars == <<appointments, nextId>>
calVars == <<events, nextEvt>>
gateVars == <<syncManager, lastGrant, grantGap>>

\* ---- small helpers ------------------------------------------------------
Min(S) == CHOOSE x \in S : \A y \in S : x <= y

ActiveStatuses == {"scheduled", "confirmed", "pending"}

ById(id) == CHOOSE a \in appointments : a.id = id

HasId(id) == \E a \in appointments : a.id = id

\* the row of a queue handled next (rows come back in id order)
FirstRow(q) == CHOOSE a \in q : \A b \in q : a.id <= b.id

\* ---- SimpleSyncManager --------------------------------------------------
\* mutation: the interval is not looked at
canRunNoInterval(m) ==
    IF m.isRunning THEN FALSE ELSE TRUE

canRun(m) ==
    IF m.isRunning THEN FALSE
    ELSE IF now - m.lastRun < minInterval THEN FALSE
    ELSE TRUE

\* mutation: a refused call stamps lastRun all the same
startStamps(m) ==
    IF ~canRun(m) THEN [m EXCEPT !.lastRun = now]
    ELSE [isRunning |-> TRUE, lastRun |-> now]

start(m) ==
    IF ~canRun(m) THEN m
    ELSE [isRunning |-> TRUE, lastRun |-> now]

\* mutation: stop leaves the flag as it is
stopNoop(m) == m

stop(m) == [m EXCEPT !.isRunning = FALSE]

forceReset(m) == [isRunning |-> FALSE, lastRun |-> 0]

\* one call of start(): the manager before, the answer, the manager after
StartCall(m) == [pre |-> m, at |-> now, ret |-> canRun(m), post |-> start(m)]

\* bookkeeping of the grants, for the rate limit
Granted(ok) ==
    /\ lastGrant' = IF ok THEN now ELSE lastGrant
    /\ grantGap' = IF ok /\ lastGrant # NoGrant
                   THEN (IF now - lastGrant < minInterval
                         THEN now - lastGrant ELSE minInterval)
                   ELSE grantGap

\* ---- time conversions ---------------------------------------------------
\* moment.tz(`${date}T${time}:00`, TIMEZONE): the wall time in the configured zone
DbInstant(date, time) == date * MinutesPerDay + time - configOffset

\* new Date(`${date}T${time}:00`): the wall time in the server's own zone
LocalInstant(date, time) == date * MinutesPerDay + time - serverOffset

\* moment(created_at): the UTC text of datetime('now') is read as server-local
\* time; an imported row carries the provider's ISO text, which is read as is
ParsedCreatedAt(a) == IF a.iso THEN a.created ELSE a.created - serverOffset

\* moment().diff(moment(created_at), 'hours'): whole hours, truncated
hoursSinceCreation(a) == (now - ParsedCreatedAt(a)) \div MinutesPerHour

\* events.list(timeMin, timeMax): events ending after timeMin, starting before timeMax
getUpcomingAppointments(days) ==
    {e \in events : /\ e.start + e.dur > now - lookbackMinutes
                    /\ e.start < now + days * MinutesPerDay}

\* ---- the sync entry points ----------------------------------------------
\* entry: which function the caller invoked; pc: the await it stands at;
\* admitted: its own start() returned true; holds: admitted and not yet
\* returned; inFull: syncAppointments runs inside performFullSync; snap,
\* listing: what the pass read, listedAt: when; toCreate..toDeleteInDb: the
\* queues of the diff; queue: the rows of the loop in progress; log: the
\* gateway calls and store writes of the pass; did: the stages carried out;
\* threw: the call rejected.
IdleTask ==
    [entry |-> "none", pc |-> "idle", holds |-> FALSE, inFull |-> FALSE,
     admitted |-> FALSE, snap |-> {}, listing |-> {}, toCreate |-> {},
     toUpdate |-> {}, toDeleteInCalendar |-> {}, toDeleteInDb |-> {},
     listedAt |-> 0, queue |-> {}, log |-> <<>>, did |-> {}, threw |-> FALSE,
     success |-> 0]

Callable(t) == task[t].pc \in {"idle", "done"}

\* a gateway call or a store write: the row it is for, the event id it names
\* or returns, the appointmentData it carries, whether it succeeded
LogEntry(op, id, evt, data, ok) ==
    [op |-> op, appt |-> id, evt |-> evt, date |-> data.date,
     time |-> data.time, dur |-> data.duration, ok |-> ok]

\* the call has returned or thrown: its locals are gone
Returned(r, threw) ==
    [IdleTask EXCEPT !.entry = r.entry, !.pc = "done", !.threw = threw,
                     !.admitted = r.admitted, !.did = r.did]

\* performFullSync has returned or thrown (its finally has run); a timer
\* callback that awaited it resumes in the same turn of the event loop
AfterFull(r, threw) == Returned(r, threw)

\* syncAppointments has returned or thrown (its finally has run)
AfterSync(r, threw) ==
    IF ~r.inFull
    THEN Returned(r, threw)
    ELSE IF threw
         THEN AfterFull(r, TRUE)
         ELSE [r EXCEPT !.pc = "retry", !.inFull = FALSE, !.snap = {},
                        !.listing = {}]

\* ---- the gateway's writes ------------------------------------------------
\* createAppointment: the start is new Date(local), the description carries
\* a "Phone:" line
createAppointment(data) ==
    [id |-> nextEvt, start |-> LocalInstant(data.date, data.time),
     dur |-> data.duration, phone |-> data.patientPhone, created |-> now]

\* updateAppointment replaces start, end and description of the event
updateAppointment(e, data) ==
    [id |-> e.id, start |-> LocalInstant(data.date, data.time),
     dur |-> data.duration, phone |-> data.patientPhone,
     created |-> e.created]

\* createEvent with the details the callers build from moment.tz(...);
\* phone is the "Phone:" line of the description, "none" without one
createEvent(data, phone) ==
    [id |-> nextEvt, start |-> DbInstant(data.date, data.time),
     dur |-> data.duration, phone |-> phone, created |-> now]

\* the appointmentData the service builds from a row
AppointmentData(a) ==
    [patientPhone |-> a.phone, date |-> a.date, time |-> a.time,
     duration |-> a.dur]

\* the write-back with its two parameters bound in the wrong order
SetEventIdSwapped(id, evt) ==
    {IF a.id = evt THEN [a EXCEPT !.evt = id] ELSE a : a \in appointments}

\* UPDATE appointments SET google_event_id = ? WHERE id = ?
SetEventId(id, evt) ==
    {IF a.id = id THEN [a EXCEPT !.evt = evt] ELSE a : a \in appointments}

\* ---- CalendarSyncService.syncAppointments --------------------------------
\* mutation: the query without its status condition
AnyStatusWithEvent == {a \in appointments : a.evt # 0}

\* the rows syncAppointments reads
ScheduledWithEvent ==
    {a \in appointments : a.status = "scheduled" /\ a.evt # 0}

\* drift branch: the event is not in the listing; recreate only recent rows
ToCreateInCalendar(snap, listing) ==
    {a \in snap : /\ ~\E e \in listing : e.id = a.evt
                  /\ hoursSinceCreation(a) <= recreateHours}

\* the comparison made against the server-local reading of the row
ToUpdateInCalendarLocal(snap, listing) ==
    {[id |-> a.id, dbAppointment |-> a, calendarEvent |-> e] :
        <<a, e>> \in {p \in snap \X listing :
                        /\ p[2].id = p[1].evt
                        /\ LocalInstant(p[1].date, p[1].time) # p[2].start}}

\* compare branch: the event is in the listing and starts at another instant
ToUpdateInCalendar(snap, listing) ==
    {[id |-> a.id, dbAppointment |-> a, calendarEvent |-> e] :
        <<a, e>> \in {p \in snap \X listing :
                        /\ p[2].id = p[1].evt
                        /\ DbInstant(p[1].date, p[1].time) # p[2].start}}

\* the orphan loop queueing what it finds
ToDeleteInCalendarOrphans(snap, listing) ==
    {e.id : e \in {x \in listing : ~\E a \in snap : a.evt = x.id}}

\* orphan loop: logged only, nothing is queued
ToDeleteInCalendar(snap, listing) == {}

NextApply(r) ==
    IF r.toCreate # {} THEN "create"
    ELSE IF r.toUpdate # {} THEN "update"
    ELSE "finish"

\* the caller invokes syncAppointments directly: start(), or return through finally
syncAppointments(t) ==
    /\ Callable(t)
    /\ LET c == StartCall(syncManager) IN
        /\ startCalls' = <<c>>
        /\ Granted(c.ret)
        /\ IF c.ret
           THEN /\ syncManager' = c.post
                /\ task' = [task EXCEPT ![t] =
                       [IdleTask EXCEPT !.entry = "sync", !.pc = "read",
                                        !.holds = TRUE,
                                        !.admitted = TRUE]]
           ELSE /\ syncManager' = stop(c.post)
                /\ task' = [task EXCEPT ![t] =
                       [IdleTask EXCEPT !.entry = "sync", !.pc = "done"]]
    /\ UNCHANGED <<now, serverOffset, chatVars, auth, storeVars, calVars, book, sweep>>

\* db.query of the scheduled rows with an event id; a rejected query is rethrown
SyncRead(t) ==
    /\ task[t].pc = "read"
    /\ \/ /\ task' = [task EXCEPT ![t].snap = ScheduledWithEvent,
                                    ![t].did = @ \cup {"reconcile"},
                                    ![t].pc = "list"]
          /\ UNCHANGED syncManager
       \/ /\ syncManager' = stop(syncManager)
          /\ task' = [task EXCEPT ![t] = AfterSync(task[t], TRUE)]
    /\ UNCHANGED <<now, serverOffset, chatVars, auth, storeVars, calVars, book, lastGrant,
                   grantGap, sweep>>
    /\ startCalls' = <<>>

\* the listing of the next 30 days and the diff; a rejected listing is rethrown
SyncList(t) ==
    /\ task[t].pc = "list"
    /\ \/ /\ LET listing == getUpcomingAppointments(windowDays)
                 r == [task[t] EXCEPT
                         !.listing = listing,
                         !.listedAt = now,
                         !.toCreate = ToCreateInCalendar(task[t].snap, listing),
                         !.toUpdate = ToUpdateInCalendar(task[t].snap, listing),
                         !.toDeleteInCalendar =
                              ToDeleteInCalendar(task[t].snap, listing)]
             IN task' = [task EXCEPT ![t] = [r EXCEPT !.pc = NextApply(r)]]
          /\ UNCHANGED syncManager
       \/ /\ syncManager' = stop(syncManager)
          /\ task' = [task EXCEPT ![t] = AfterSync(task[t], TRUE)]
    /\ UNCHANGED <<now, serverOffset, chatVars, auth, storeVars, calVars, book, lastGrant,
                   grantGap, sweep>>
    /\ startCalls' = <<>>

\* mutation: a rejected create is rethrown and ends the loop
ApplyCreateThrows(t, a, data, ev, rest) ==
    /\ task' = [task EXCEPT ![t] =
           [rest EXCEPT !.pc = "finish", !.threw = TRUE,
                        !.log = Append(@, LogEntry("create", a.id, 0, data,
                                                   FALSE))]]
    /\ UNCHANGED <<storeVars, calVars>>

\* one item of a create loop: the gateway call, then the write-back of the
\* new id; either may reject and the item's catch swallows it.  rest is the
\* task after the item has been taken off its queue.
ApplyCreate(t, a, data, ev, rest) ==
    \/ /\ task' = [task EXCEPT ![t] =
              [rest EXCEPT !.log = Append(@, LogEntry("create", a.id, 0, data, FALSE))]]
       /\ UNCHANGED <<storeVars, calVars>>
    \/ /\ nextEvt <= MaxEvents
       /\ events' = events \cup {ev}
       /\ nextEvt' = nextEvt + 1
       /\ UNCHANGED nextId
       /\ \/ /\ appointments' = SetEventId(a.id, ev.id)
             /\ task' = [task EXCEPT ![t] =
                    [rest EXCEPT !.log =
                        @ \o <<LogEntry("create", a.id, ev.id, data, TRUE),
                               LogEntry("write", a.id, ev.id, data, TRUE)>>]]
          \/ /\ UNCHANGED appointments
             /\ task' = [task EXCEPT ![t] =
                    [rest EXCEPT !.log =
                        @ \o <<LogEntry("create", a.id, ev.id, data, TRUE),
                               LogEntry("write", a.id, ev.id, data, FALSE)>>]]

\* applySyncFixes, recreate loop: one queued appointment
SyncCreate(t) ==
    /\ task[t].pc = "create"
    /\ LET a == FirstRow(task[t].toCreate)
           r == [task[t] EXCEPT !.toCreate = @ \ {a}]
           data == AppointmentData(a)
       IN ApplyCreate(t, a, data, createAppointment(data),
                      [r EXCEPT !.pc = NextApply(r)])
    /\ UNCHANGED <<now, serverOffset, chatVars, auth, book, gateVars, sweep>>
    /\ startCalls' = <<>>

\* applySyncFixes, update loop: one queued pair; the provider rejects the
\* update of an event that is gone
SyncUpdate(t) ==
    /\ task[t].pc = "update"
    /\ LET it == FirstRow(task[t].toUpdate)
           a == it.dbAppointment
           data == AppointmentData(a)
           r == [task[t] EXCEPT !.toUpdate = @ \ {it}]
           rest == [r EXCEPT !.pc = NextApply(r)]
       IN \/ /\ \E cur \in events :
                   /\ cur.id = it.calendarEvent.id
                   /\ events' = (events \ {cur})
                                   \cup {updateAppointment(cur, data)}
             /\ task' = [task EXCEPT ![t] =
                    [rest EXCEPT !.log =
                        Append(@, LogEntry("update", a.id, it.calendarEvent.id,
                                           data, TRUE))]]
          \/ /\ UNCHANGED events
             /\ task' = [task EXCEPT ![t] =
                    [rest EXCEPT !.log =
                        Append(@, LogEntry("update", a.id, it.calendarEvent.id,
                                           data, FALSE))]]
    /\ UNCHANGED <<now, serverOffset, chatVars, auth, storeVars, nextEvt, book, gateVars,
                   sweep>>
    /\ startCalls' = <<>>

\* applySyncFixes, the delete loops over the queues of the diff, then the
\* finally of syncAppointments
SyncFinish(t) ==
    /\ task[t].pc = "finish"
    /\ events' = {e \in events : e.id \notin task[t].toDeleteInCalendar}
    /\ appointments' =
          {IF a.id \in task[t].toDeleteInDb
           THEN [a EXCEPT !.status = "cancelled"] ELSE a : a \in appointments}
    /\ syncManager' = stop(syncManager)
    /\ task' = [task EXCEPT ![t] = AfterSync(task[t], FALSE)]
    /\ UNCHANGED <<now, serverOffset, chatVars, auth, nextId, nextEvt, book, lastGrant,
                   grantGap, sweep>>
    /\ startCalls' = <<>>

\* ---- CalendarSyncService.performFullSync ----------------------------------
\* the rows validateAppointmentData and retryFailedAppointmentSyncs read
ScheduledWithoutEvent ==
    {a \in appointments : a.status = "scheduled" /\ a.evt = 0}

\* cleanupOldData: created_at < thirtyDaysAgo.toISOString() compares the
\* texts; they differ first in the date, or else at ' ' < 'T'
OlderThanThirtyDays(a) ==
    a.created \div MinutesPerDay <= (now - windowDays * MinutesPerDay) \div MinutesPerDay

\* the caller invokes performFullSync directly: start(), or return through finally
performFullSync(t) ==
    /\ Callable(t)
    /\ LET c == StartCall(syncManager) IN
        /\ startCalls' = <<c>>
        /\ Granted(c.ret)
        /\ IF c.ret
           THEN /\ syncManager' = c.post
                /\ task' = [task EXCEPT ![t] =
                       [IdleTask EXCEPT !.entry = "full", !.pc = "validate",
                                        !.holds = TRUE,
                                        !.admitted = TRUE]]
           ELSE /\ syncManager' = stop(c.post)
                /\ task' = [task EXCEPT ![t] =
                       [IdleTask EXCEPT !.entry = "full", !.pc = "done"]]
    /\ UNCHANGED <<now, serverOffset, chatVars, auth, storeVars, calVars, book, sweep>>

\* validateAppointmentData: its query; a rejected query is rethrown
FullValidate(t) ==
    /\ task[t].pc = "validate"
    /\ \/ /\ task' = [task EXCEPT ![t].queue = ScheduledWithoutEvent,
                                    ![t].did = @ \cup {"validate"},
                                    ![t].pc = IF ScheduledWithoutEvent # {}
                                              THEN "vitems" ELSE "nested"]
          /\ UNCHANGED syncManager
       \/ /\ syncManager' = stop(syncManager)
          /\ task' = [task EXCEPT ![t] = AfterFull(task[t], TRUE)]
    /\ UNCHANGED <<now, serverOffset, chatVars, auth, storeVars, calVars, book, lastGrant,
                   grantGap, sweep>>
    /\ startCalls' = <<>>

\* validateAppointmentData: one row without an event id
FullValidateItem(t) ==
    /\ task[t].pc = "vitems"
    /\ LET a == FirstRow(task[t].queue)
           r == [task[t] EXCEPT !.queue = @ \ {a}]
           data == AppointmentData(a)
       IN ApplyCreate(t, a, data, createAppointment(data),
                      [r EXCEPT !.pc = IF r.queue # {} THEN "vitems"
                                       ELSE "nested"])
    /\ UNCHANGED <<now, serverOffset, chatVars, auth, book, gateVars, sweep>>
    /\ startCalls' = <<>>

\* performFullSync calls syncAppointments, which asks the manager again
FullSyncAppointments(t) ==
    /\ task[t].pc = "nested"
    /\ LET c == StartCall(syncManager) IN
        /\ startCalls' = <<c>>
        /\ Granted(c.ret)
        /\ IF c.ret
           THEN /\ syncManager' = c.post
                /\ task' = [task EXCEPT ![t].pc = "read", ![t].inFull = TRUE]
           ELSE /\ syncManager' = stop(c.post)
                /\ task' = [task EXCEPT ![t].pc = "retry"]
    /\ UNCHANGED <<now, serverOffset, chatVars, auth, storeVars, calVars, book, sweep>>

\* retryFailedAppointmentSyncs: its query; a rejected query is swallowed
FullRetry(t) ==
    /\ task[t].pc = "retry"
    /\ \/ task' = [task EXCEPT ![t].queue = ScheduledWithoutEvent,
                                ![t].did = @ \cup {"retry"},
                                ![t].pc = IF ScheduledWithoutEvent # {}
                                          THEN "ritems" ELSE "cleanup"]
       \/ task' = [task EXCEPT ![t].did = @ \cup {"retry"},
                                ![t].pc = "cleanup"]
    /\ UNCHANGED <<now, serverOffset, chatVars, auth, storeVars, calVars, book, gateVars,
                   sweep>>
    /\ startCalls' = <<>>

\* retryFailedAppointmentSyncs: one row, through createEvent
FullRetryItem(t) ==
    /\ task[t].pc = "ritems"
    /\ LET a == FirstRow(task[t].queue)
           r == [task[t] EXCEPT !.queue = @ \ {a}]
           data == AppointmentData(a)
       IN ApplyCreate(t, a, data, createEvent(data, "none"),
                      [r EXCEPT !.pc = IF r.queue # {} THEN "ritems"
                                       ELSE "cleanup"])
    /\ UNCHANGED <<now, serverOffset, chatVars, auth, book, gateVars, sweep>>
    /\ startCalls' = <<>>

\* cleanupOldData, then the finally of performFullSync
FullCleanup(t) ==
    /\ task[t].pc = "cleanup"
    /\ appointments' =
          {IF a.status \in {"completed", "cancelled"} /\ OlderThanThirtyDays(a)
           THEN [a EXCEPT !.status = "archived"] ELSE a : a \in appointments}
    /\ syncManager' = stop(syncManager)
    /\ task' = [task EXCEPT ![t] =
          AfterFull([task[t] EXCEPT !.did = @ \cup {"cleanup"}], FALSE)]
    /\ UNCHANGED <<now, serverOffset, chatVars, auth, nextId, calVars, book, lastGrant,
                   grantGap, sweep>>
    /\ startCalls' = <<>>

\* ---- the timers of the server --------------------------------------------
\* a timer callback: start(); when admitted, the call of performFullSync,
\* which runs up to its own start().  When that start() refuses, the
\* finally of performFullSync and the rest of the callback, which awaits a
\* promise already settled, follow in the same turn of the event loop.
TimerFire(t, entry) ==
    /\ Callable(t)
    /\ LET c1 == StartCall(syncManager)
           c2 == StartCall(c1.post)
       IN IF ~c1.ret
          THEN /\ startCalls' = <<c1>>
               /\ Granted(FALSE)
               /\ syncManager' = c1.post
               /\ task' = [task EXCEPT ![t] =
                      [IdleTask EXCEPT !.entry = entry, !.pc = "done"]]
          ELSE /\ startCalls' = <<c1, c2>>
               /\ Granted(TRUE)
               /\ IF c2.ret
                  THEN /\ syncManager' = c2.post
                       /\ task' = [task EXCEPT ![t] =
                              [IdleTask EXCEPT !.entry = entry,
                                               !.pc = "validate",
                                               !.holds = TRUE,
                                               !.admitted = TRUE]]
                  ELSE /\ syncManager' = stop(stop(c2.post))
                       /\ task' = [task EXCEPT ![t] =
                              [IdleTask EXCEPT !.entry = entry,
                                               !.pc = "done",
                                               !.admitted = TRUE]]
    /\ UNCHANGED <<now, serverOffset, chatVars, auth, storeVars, calVars, book, sweep>>

\* the setInterval callback, every 30 minutes
periodicSync(t) == TimerFire(t, "timer")

\* the setTimeout callback, 15 seconds after listen
initialSync(t) == TimerFire(t, "startup")

\* ---- AppointmentBot.fullSync ----------------------------------------------
\* the rows syncExistingAppointments reads
ScheduledNullEvent ==
    {a \in appointments : a.status = "scheduled" /\ a.evt = 0}

\* getAllCalendarEvents: the start text of an event split at 'T', in the
\* zone the calendar reports
ImportDate(e) == (e.start + configOffset) \div MinutesPerDay

ImportTime(e) == (e.start + configOffset) % MinutesPerDay

\* mutation: the import without its look-up of google_event_id
ImportableUnchecked == {e \in events : e.phone # "none"}

\* repopulateFromCalendar: the events no row refers to; INSERT OR IGNORE
\* drops those without a phone (patient_phone is NOT NULL)
Importable ==
    {e \in events : /\ ~\E a \in appointments : a.evt = e.id
                    /\ e.phone # "none"}

\* repopulateFromCalendar's successCount: one for every event whose look-up
\* found no row and whose INSERT OR IGNORE was not rejected
successCount ==
    Cardinality({e \in events : ~\E a \in appointments : a.evt = e.id})

RECURSIVE ImportRows(_, _)
ImportRows(es, id) ==
    IF es = {} THEN {}
    ELSE LET e == CHOOSE x \in es : \A y \in es :
                      x.start < y.start \/ (x.start = y.start /\ x.id <= y.id)
         IN {[id |-> id, phone |-> e.phone, date |-> ImportDate(e),
              time |-> ImportTime(e), dur |-> e.dur, status |-> "scheduled",
              evt |-> e.id, created |-> e.created, iso |-> TRUE]}
            \cup ImportRows(es \ {e}, id + 1)

\* the bot's fullSync: start(), or return through finally
fullSync(t) ==
    /\ Callable(t)
    /\ LET c == StartCall(syncManager) IN
        /\ startCalls' = <<c>>
        /\ Granted(c.ret)
        /\ IF c.ret
           THEN /\ syncManager' = c.post
                /\ task' = [task EXCEPT ![t] =
                       [IdleTask EXCEPT !.entry = "bot", !.pc = "bsync",
                                        !.holds = TRUE,
                                        !.admitted = TRUE]]
           ELSE /\ syncManager' = stop(c.post)
                /\ task' = [task EXCEPT ![t] =
                       [IdleTask EXCEPT !.entry = "bot", !.pc = "done"]]
    /\ UNCHANGED <<now, serverOffset, chatVars, auth, storeVars, calVars, book, sweep>>

\* syncExistingAppointments: its query; a rejected query is swallowed
BotSyncExisting(t) ==
    /\ task[t].pc = "bsync"
    /\ \/ task' = [task EXCEPT ![t].queue = ScheduledNullEvent,
                                ![t].pc = IF ScheduledNullEvent # {}
                                          THEN "bitems" ELSE "brepop"]
       \/ task' = [task EXCEPT ![t].pc = "brepop"]
    /\ UNCHANGED <<now, serverOffset, chatVars, auth, storeVars, calVars, book, gateVars,
                   sweep>>
    /\ startCalls' = <<>>

\* syncExistingAppointments: one row, through createEvent with a "Phone:" line
BotSyncItem(t) ==
    /\ task[t].pc = "bitems"
    /\ LET a == FirstRow(task[t].queue)
           r == [task[t] EXCEPT !.queue = @ \ {a}]
           data == AppointmentData(a)
       IN ApplyCreate(t, a, data, createEvent(data, a.phone),
                      [r EXCEPT !.pc = IF r.queue # {} THEN "bitems"
                                       ELSE "brepop"])
    /\ UNCHANGED <<now, serverOffset, chatVars, auth, book, gateVars, sweep>>
    /\ startCalls' = <<>>

\* repopulateFromCalendar, then the finally of fullSync; a rejected listing
\* is rethrown
BotRepopulate(t) ==
    /\ task[t].pc = "brepop"
    /\ \/ /\ \/ Importable = {}
             \/ nextId + Cardinality(Importable) <= MaxAppts + 1
          /\ appointments' = appointments \cup ImportRows(Importable, nextId)
          /\ nextId' = nextId + Cardinality(Importable)
          /\ task' = [task EXCEPT ![t] =
                 [Returned(task[t], FALSE) EXCEPT !.success = successCount]]
       \/ /\ UNCHANGED storeVars
          /\ task' = [task EXCEPT ![t] = Returned(task[t], TRUE)]
    /\ syncManager' = stop(syncManager)
    /\ UNCHANGED <<now, serverOffset, chatVars, auth, calVars, book, lastGrant, grantGap,
                   sweep>>
    /\ startCalls' = <<>>

\* ---- the clock -----------------------------------------------------------
Tick(readings) ==
    /\ \E v \in readings : v > now /\ now' = v
    /\ UNCHANGED <<syncManager, serverOffset, chatVars, auth, storeVars, calVars, task, book,
                   lastGrant, grantGap, sweep>>
    /\ startCalls' = <<>>

\* ---- initial states ------------------------------------------------------
Row(id, phone, date, time, status, evt) ==
    [id |-> id, phone |-> phone, date |-> date, time |-> time,
     dur |-> defaultDuration, status |-> status, evt |-> evt,
     created |-> StartTime, iso |-> FALSE]

Event(id, date, time, phone) ==
    [id |-> id, start |-> DbInstant(date, time), dur |-> defaultDuration,
     phone |-> phone, created |-> StartTime]

\* no row of conversation_states for the phone: getConversationState
\* returns null
NoConversation ==
    [state |-> "none", dates |-> <<>>, slots |-> <<>>, date |-> 0,
     time |-> 0, appts |-> <<>>, appt |-> 0]

\* patients.name is NULL until a name is stored
NullName == <<>>

\* no message is being handled
NoMessage == [from |-> "none", body |-> <<>>, notifyName |-> NullName]

\* clearConversationState: the DELETE of the phone's row
clearConversationState(phone) ==
    [conversation_states EXCEPT ![phone] = NoConversation]

\* how a confirm* handler ends: the outbound message is sent, or it is
\* rejected and sendErrorMessage goes out from the catch block, and
\* clearConversationState deletes the row; or sendErrorMessage is rejected
\* as well and leaves the catch block before clearConversationState, or the
\* DELETE is rejected and the rejection swallowed
HandlerEnds(phone) ==
    /\ \/ conversation_states' = clearConversationState(phone)
       \/ UNCHANGED conversation_states
    /\ inbound' = NoMessage
    /\ UNCHANGED patients


\* no conversation handler in flight.  calendar: how the calendar part of
\* confirmAppointment ended (kept: the row had an event id; created;
\* failed); slots: the start times getAvailableSlots offered for date
IdleBooker ==
    [pc |-> "idle", phone |-> "p1", date |-> 1, time |-> 540, id |-> 0,
     existed |-> FALSE, calendar |-> "none", slots |-> {}]

\* the maintenance script is not running.  entry: the command; before: the
\* rows as checkDbDuplicates saw them; groups: the duplicate groups left to
\* clean; valid: validEventIds; listing: the events as listed, in order;
\* plan: the ids still to be deleted, in order; calls: the deletes made;
\* totalDeleted, ret: the counter and the value returned.
IdleSweep ==
    [entry |-> "none", pc |-> "idle", before |-> {}, groups |-> {},
     valid |-> {}, listing |-> <<>>, plan |-> <<>>, calls |-> <<>>,
     totalDeleted |-> 0, ret |-> NoReturn, threw |-> FALSE]

\* the GoogleCalendarService singleton with no operation in flight.
\* isAuthenticated: the flag; clientOk: the provider accepts the access token
\* of oauth2Client.credentials; envOk: it accepts the one of process.env;
\* refreshToken: GOOGLE_REFRESH_TOKEN is missing, good or revoked; op, pc:
\* the operation and where it is; refreshes: the refreshAccessToken calls of
\* the operation; stale: a testConnection of the operation failed;
\* refreshFailed: a refreshAccessToken of the operation was rejected; called:
\* the operation made its API call; result: what the caller got
IdleGateway ==
    [isAuthenticated |-> TRUE, clientOk |-> TRUE, envOk |-> TRUE,
     refreshToken |-> "good", op |-> "none", pc |-> "idle", refreshes |-> 0,
     stale |-> FALSE, refreshFailed |-> FALSE, called |-> FALSE,
     result |-> "none"]

\* the process has just started: the manager is idle, nothing is in flight
InitProcess ==
    /\ syncManager = [isRunning |-> FALSE, lastRun |-> 0]
    /\ now = StartTime
    /\ serverOffset \in ServerOffsets
    /\ task = [t \in Tasks |-> IdleTask]
    /\ book = [b \in Bookers |-> IdleBooker]
    /\ sweep = IdleSweep
    /\ auth = IdleGateway
    /\ startCalls = <<>>
    /\ lastGrant = NoGrant
    /\ grantGap = minInterval
    /\ conversation_states = [p \in Phones |-> NoConversation]
    /\ patients = [p \in Phones |-> NullName]
    /\ inbound = NoMessage

\* a store and a calendar left by earlier runs: two appointments booked at
\* StartTime, the first possibly cancelled since, each with or without an
\* event id, the second for tomorrow or for a day beyond the listing
\* window; the event of each absent, in place or moved; possibly one event
\* nobody references
InitSync ==
    /\ InitProcess
    /\ \E s1 \in {"scheduled", "cancelled"}, g1 \in {0, 1}, g2 \in {0, 2},
          d2 \in {1, FarDate} :
          /\ appointments = {Row(1, "p1", 1, 540, s1, g1),
                             Row(2, "p2", d2, 570, "scheduled", g2)}
          /\ \E E1 \in {{}, {Event(1, 1, 540, "p1")},
                              {Event(1, 2, 540, "p1")}},
                E2 \in {{}, {Event(2, d2, 570, "p2")},
                              {Event(2, d2 + 1, 570, "p2")}},
                E3 \in {{}, {Event(3, 2, 570, "none")}} :
                events = E1 \cup E2 \cup E3
    /\ nextId = 3
    /\ nextEvt = 4

\* ---- AppointmentBot.confirmAppointment -----------------------------------
\* mutation: the SELECT without its appointment_time condition
ExistingSameDay(phone, date, time) ==
    {a \in appointments : /\ a.phone = phone /\ a.date = date
                          /\ a.status \in ActiveStatuses}

\* saveAppointment's SELECT: the active rows of the triple
ExistingAppointment(phone, date, time) ==
    {a \in appointments : /\ a.phone = phone /\ a.date = date /\ a.time = time
                          /\ a.status \in ActiveStatuses}

\* a patient confirms a slot: saveAppointment runs its existence check and
\* either returns the existing id or goes on to the INSERT
confirmAppointment(b) ==
    /\ book[b].pc = "idle"
    /\ \E phone \in Phones, date \in Dates, time \in Times :
          LET existing == ExistingAppointment(phone, date, time)
              r == [IdleBooker EXCEPT !.phone = phone, !.date = date,
                                      !.time = time]
          IN book' = [book EXCEPT ![b] =
                 IF existing # {}
                 THEN [r EXCEPT !.pc = "lookup", !.id = FirstRow(existing).id,
                                !.existed = TRUE]
                 ELSE [r EXCEPT !.pc = "insert"]]
    /\ UNCHANGED <<now, serverOffset, chatVars, auth, storeVars, calVars, task, gateVars,
                   sweep>>
    /\ startCalls' = <<>>

\* saveAppointment's INSERT; idx_appointments_unique_slot is a plain index,
\* so the store accepts any row
SaveAppointmentInsert(b) ==
    /\ book[b].pc = "insert"
    /\ nextId <= MaxAppts
    /\ appointments' = appointments \cup
          {[id |-> nextId, phone |-> book[b].phone, date |-> book[b].date,
            time |-> book[b].time, dur |-> defaultDuration,
            status |-> "scheduled", evt |-> 0, created |-> now,
            iso |-> FALSE]}
    /\ nextId' = nextId + 1
    /\ book' = [book EXCEPT ![b].pc = "event", ![b].id = nextId]
    /\ UNCHANGED <<now, serverOffset, chatVars, auth, calVars, task, gateVars, sweep>>
    /\ startCalls' = <<>>

\* the row existed: read its google_event_id, keep it when it is set
ConfirmLookup(b) ==
    /\ book[b].pc = "lookup"
    /\ book' = [book EXCEPT ![b] =
          IF HasId(book[b].id) /\ ById(book[b].id).evt # 0
          THEN [@ EXCEPT !.pc = "send", !.calendar = "kept"]
          ELSE [@ EXCEPT !.pc = "event"]]
    /\ UNCHANGED <<now, serverOffset, chatVars, auth, storeVars, calVars, task, gateVars,
                   sweep>>
    /\ startCalls' = <<>>

\* mutation: a rejected createEvent reaches the outer catch, which sends
\* the error message
ConfirmCreateEventAborts(b) ==
    /\ book[b].pc = "event"
    /\ book' = [book EXCEPT ![b].pc = "error", ![b].calendar = "failed"]
    /\ UNCHANGED <<now, serverOffset, chatVars, auth, storeVars, calVars, task, gateVars,
                   sweep>>
    /\ startCalls' = <<>>

\* createEvent and the write of its id; a failure is caught inside and the
\* handler goes on to the confirmation all the same
ConfirmCreateEvent(b) ==
    /\ book[b].pc = "event"
    /\ LET data == [patientPhone |-> book[b].phone, date |-> book[b].date,
                    time |-> book[b].time, duration |-> defaultDuration]
       IN \/ /\ nextEvt <= MaxEvents
             /\ events' = events \cup {createEvent(data, "none")}
             /\ nextEvt' = nextEvt + 1
             /\ appointments' = SetEventId(book[b].id, nextEvt)
             /\ book' = [book EXCEPT ![b].pc = "send",
                                     ![b].calendar = "created"]
          \/ /\ UNCHANGED <<appointments, calVars>>
             /\ book' = [book EXCEPT ![b].pc = "send",
                                     ![b].calendar = "failed"]
    /\ UNCHANGED nextId
    /\ UNCHANGED <<now, serverOffset, chatVars, auth, task, gateVars, sweep>>
    /\ startCalls' = <<>>

\* sendAppointmentConfirmation and clearConversationState: the handler ends
SendConfirmation(b) ==
    /\ book[b].pc = "send"
    /\ book' = [book EXCEPT ![b] = IdleBooker]
    /\ HandlerEnds(book[b].phone)
    /\ UNCHANGED <<now, serverOffset, auth, storeVars, calVars, task, gateVars,
                   sweep>>
    /\ startCalls' = <<>>

InitBook ==
    /\ InitProcess
    /\ appointments = {}
    /\ nextId = 1
    /\ events = {}
    /\ nextEvt = 1

NextBook ==
    \E b \in Bookers :
        \/ confirmAppointment(b)
        \/ SaveAppointmentInsert(b)
        \/ ConfirmLookup(b)
        \/ ConfirmCreateEvent(b)
        \/ SendConfirmation(b)

SpecBook == InitBook /\ [][NextBook]_vars

\* bookings one after the other: a confirmAppointment runs to its end before
\* the next one starts
confirmAppointmentInTurn(b) ==
    /\ \A o \in Bookers \ {b} : book[o].pc = "idle"
    /\ confirmAppointment(b)

NextBookInTurn ==
    \E b \in Bookers :
        \/ confirmAppointmentInTurn(b)
        \/ SaveAppointmentInsert(b)
        \/ ConfirmLookup(b)
        \/ ConfirmCreateEvent(b)
        \/ SendConfirmation(b)

SpecBookInTurn == InitBook /\ [][NextBookInTurn]_vars

\* C1: for every (phone, date, time) at most one appointment with an active
\* status exists, whatever booking attempts have run, concurrent ones
\* included.
C1_OneActivePerSlot ==
    \A a, b \in appointments :
        (/\ a.phone = b.phone /\ a.date = b.date /\ a.time = b.time
         /\ a.status \in ActiveStatuses /\ b.status \in ActiveStatuses)
        => a.id = b.id

\* ---- AppointmentBot: slots, rescheduling, import --------------------------
InTurn(b) == \A o \in Bookers \ {b} : book[o].pc = "idle"

\* GoogleCalendarService.getAvailableSlots: the slots of the working day,
\* laid out in the server's local time, that overlap no listed event
GatewayAvailableSlots(date) ==
    {t \in Times :
        ~\E e \in events :
            /\ LocalInstant(date, t) < e.start + e.dur
            /\ LocalInstant(date, t) + defaultDuration > e.start}

\* the fallback: every slot of the working day
generateBasicSlots(date) == Times

\* what the bot offers for a date: the gateway's answer, or the fallback
\* when the gateway call is rejected
OfferedSlots(date) == {GatewayAvailableSlots(date), generateBasicSlots(date)}

\* a patient asks for the slots of a date (handleDateSelection,
\* handleRescheduleDateSelection)
getAvailableSlots(b) ==
    /\ book[b].pc = "idle" /\ InTurn(b)
    /\ \E phone \in Phones, date \in Dates :
        \E slots \in OfferedSlots(date) :
          book' = [book EXCEPT ![b] =
              [IdleBooker EXCEPT !.pc = "slots", !.phone = phone,
                                 !.date = date, !.slots = slots]]
    /\ UNCHANGED <<syncManager, now, serverOffset, chatVars, auth, storeVars, calVars, task,
                   sweep, lastGrant, grantGap>>
    /\ startCalls' = <<>>

\* the patient leaves the list without choosing
resetToMainMenu(b) ==
    /\ book[b].pc = "slots"
    /\ book' = [book EXCEPT ![b] = IdleBooker]
    /\ UNCHANGED <<syncManager, now, serverOffset, chatVars, auth, storeVars, calVars, task,
                   sweep, lastGrant, grantGap>>
    /\ startCalls' = <<>>

\* the patient picks one of their scheduled appointments and one of the
\* slots offered, and confirms
handleRescheduleTimeSelection(b) ==
    /\ book[b].pc = "slots"
    /\ \E a \in appointments, time \in book[b].slots :
          /\ a.phone = book[b].phone /\ a.status = "scheduled"
          /\ book' = [book EXCEPT ![b].pc = "reschedule", ![b].id = a.id,
                                  ![b].time = time]
    /\ UNCHANGED <<syncManager, now, serverOffset, chatVars, auth, storeVars, calVars, task,
                   sweep, lastGrant, grantGap>>
    /\ startCalls' = <<>>

\* confirmReschedule: deleteEvent of the old event, a rejection swallowed
confirmReschedule(b) ==
    /\ book[b].pc = "reschedule"
    /\ \/ events' = {e \in events : e.id # ById(book[b].id).evt}
       \/ UNCHANGED events
    /\ book' = [book EXCEPT ![b].pc = "newevent"]
    /\ UNCHANGED <<syncManager, now, serverOffset, chatVars, auth, storeVars, nextEvt, task,
                   sweep, lastGrant, grantGap>>
    /\ startCalls' = <<>>

\* mutation: the UPDATE leaves google_event_id as it was
RescheduledKeepsEvent(id, date, time, evt) ==
    {IF a.id = id
     THEN [a EXCEPT !.date = date, !.time = time, !.dur = defaultDuration]
     ELSE a : a \in appointments}

\* the row rewritten in place by confirmReschedule's updateAppointment
Rescheduled(id, date, time, evt) ==
    {IF a.id = id
     THEN [a EXCEPT !.date = date, !.time = time, !.dur = defaultDuration,
                    !.evt = evt]
     ELSE a : a \in appointments}

\* confirmReschedule: createEvent for the new slot (a rejection leaves the
\* event id null), then the UPDATE of the row; a rejected UPDATE reaches
\* the outer catch and the row stays as it was
RescheduleUpdate(b) ==
    /\ book[b].pc = "newevent"
    /\ LET data == [patientPhone |-> book[b].phone, date |-> book[b].date,
                    time |-> book[b].time, duration |-> defaultDuration]
       IN \/ /\ nextEvt <= MaxEvents
             /\ events' = events \cup {createEvent(data, "none")}
             /\ nextEvt' = nextEvt + 1
             /\ \/ /\ appointments' = Rescheduled(book[b].id, book[b].date,
                                                  book[b].time, nextEvt)
                   /\ book' = [book EXCEPT ![b].pc = "sendRescheduled"]
                \/ /\ UNCHANGED appointments
                   /\ book' = [book EXCEPT ![b].pc = "error"]
          \/ /\ UNCHANGED calVars
             /\ \/ /\ appointments' = Rescheduled(book[b].id, book[b].date,
                                                  book[b].time, 0)
                   /\ book' = [book EXCEPT ![b].pc = "sendRescheduled"]
                \/ /\ UNCHANGED appointments
                   /\ book' = [book EXCEPT ![b].pc = "error"]
    /\ UNCHANGED nextId
    /\ UNCHANGED <<syncManager, now, serverOffset, chatVars, auth, task, sweep, lastGrant,
                   grantGap>>
    /\ startCalls' = <<>>

\* sendAppointmentRescheduled and clearConversationState: the handler ends
SendRescheduled(b) ==
    /\ book[b].pc = "sendRescheduled"
    /\ book' = [book EXCEPT ![b] = IdleBooker]
    /\ HandlerEnds(book[b].phone)
    /\ UNCHANGED <<syncManager, now, serverOffset, auth, storeVars, calVars,
                   task, sweep, lastGrant, grantGap>>
    /\ startCalls' = <<>>

\* the outer catch of a confirm* handler: sendErrorMessage and
\* clearConversationState
SendError(b) ==
    /\ book[b].pc = "error"
    /\ book' = [book EXCEPT ![b] = IdleBooker]
    /\ HandlerEnds(book[b].phone)
    /\ UNCHANGED <<syncManager, now, serverOffset, auth, storeVars, calVars,
                   task, sweep, lastGrant, grantGap>>
    /\ startCalls' = <<>>

\* the repopulate command: every event no row refers to becomes a row
repopulateFromCalendar ==
    /\ \A b \in Bookers : book[b].pc = "idle"
    /\ Importable # {}
    /\ nextId + Cardinality(Importable) <= MaxAppts + 1
    /\ appointments' = appointments \cup ImportRows(Importable, nextId)
    /\ nextId' = nextId + Cardinality(Importable)
    /\ UNCHANGED <<syncManager, now, serverOffset, chatVars, auth, calVars, task, book,
                   sweep, lastGrant, grantGap>>
    /\ startCalls' = <<>>

\* a server in the configured zone with an empty store; in the calendar
\* possibly an event that an earlier reconciliation created with its
\* "Phone:" line and that no row refers to
InitPatient ==
    /\ InitProcess
    /\ serverOffset = configOffset
    /\ appointments = {}
    /\ nextId = 1
    /\ events \in {{}, {Event(1, 1, 540, "p1")}}
    /\ nextEvt = MaxEvents - 1

\* one conversation at a time
NextPatient ==
    \/ \E b \in {"b1"} :
          \/ confirmAppointmentInTurn(b)
          \/ SaveAppointmentInsert(b)
          \/ ConfirmLookup(b)
          \/ ConfirmCreateEvent(b)
          \/ SendConfirmation(b)
          \/ getAvailableSlots(b)
          \/ resetToMainMenu(b)
          \/ handleRescheduleTimeSelection(b)
          \/ confirmReschedule(b)
          \/ RescheduleUpdate(b)
          \/ SendRescheduled(b)
          \/ SendError(b)
    \/ repopulateFromCalendar

SpecPatient == InitPatient /\ [][NextPatient]_vars

\* ---- MaintenanceManager: the store sweep ---------------------------------
Slot(a) == <<a.phone, a.date, a.time>>

\* checkDbDuplicates: GROUP BY phone, date, time over the active rows,
\* HAVING COUNT(*) > 1
checkDbDuplicates ==
    {g \in {Slot(a) : a \in appointments} :
        Cardinality({a \in appointments :
                        Slot(a) = g /\ a.status \in ActiveStatuses}) > 1}

\* one run of the script: a sweep alone, or the store sweep and then the
\* calendar sweep (runFullMaintenance)
SweepIdle == sweep.pc = "idle"
AfterDbSweep == sweep.entry = "clean-db" /\ sweep.pc = "done" /\ ~sweep.threw

\* cleanDbDuplicates up to its loop: nothing found returns 0
cleanDbDuplicates ==
    /\ SweepIdle
    /\ sweep' = IF checkDbDuplicates = {}
                THEN [IdleSweep EXCEPT !.entry = "clean-db", !.pc = "done",
                                       !.before = appointments, !.ret = 0]
                ELSE [IdleSweep EXCEPT !.entry = "clean-db", !.pc = "dbgroup",
                                       !.before = appointments,
                                       !.groups = checkDbDuplicates]
    /\ UNCHANGED <<syncManager, now, serverOffset, chatVars, auth, storeVars, calVars, task,
                   book, startCalls, lastGrant, grantGap>>

\* one duplicate group: every row of the slot ORDER BY created_at ASC, the
\* first kept (rows created together come in either order), the others
\* deleted; a rejected statement leaves cleanDbDuplicates as an exception
CleanDbGroup ==
    /\ sweep.pc = "dbgroup"
    /\ \E g \in sweep.groups :
         LET records == {a \in appointments : Slot(a) = g}
             left == sweep.groups \ {g}
         IN \/ \E keep \in records :
                  /\ \A a \in records : keep.created <= a.created
                  /\ appointments' = appointments \ (records \ {keep})
                  /\ LET n == sweep.totalDeleted
                                  + Cardinality(records \ {keep})
                     IN sweep' = [sweep EXCEPT
                            !.groups = left,
                            !.totalDeleted = n,
                            !.pc = IF left = {} THEN "done" ELSE "dbgroup",
                            !.ret = IF left = {} THEN n ELSE NoReturn]
            \/ /\ UNCHANGED appointments
               /\ sweep' = [sweep EXCEPT !.pc = "done", !.threw = TRUE]
    /\ UNCHANGED <<syncManager, now, serverOffset, chatVars, auth, nextId, calVars, task,
                   book, startCalls, lastGrant, grantGap>>

\* ---- MaintenanceManager: the calendar sweep ------------------------------
\* events.list with orderBy startTime: the events of the window by start,
\* events that start together in either order
Listings(S) ==
    {q \in [1..Cardinality(S) -> S] :
        /\ \A i, j \in DOMAIN q : i # j => q[i] # q[j]
        /\ \A i, j \in DOMAIN q : i < j => q[i].start <= q[j].start}

\* the keys of timeSlots in insertion order (date_time of event.start)
RECURSIVE SlotKeys(_, _)
SlotKeys(es, seen) ==
    IF es = <<>> THEN <<>>
    ELSE IF Head(es).start \in seen THEN SlotKeys(Tail(es), seen)
    ELSE <<Head(es).start>> \o SlotKeys(Tail(es), seen \cup {Head(es).start})

\* mutation: the first listed event is kept whether referenced or not
SlotDeletesKeepFirst(slotEvents, valid) ==
    IF Len(slotEvents) <= 1 THEN <<>> ELSE Tail(slotEvents)

\* the deletes of one slot, in order: with a valid event, the invalid ones
\* and then the valid ones after the first; without, all after the first
SlotDeletes(slotEvents, valid) ==
    IF Len(slotEvents) <= 1 THEN <<>>
    ELSE LET IsValid(e) == e.id \in valid
             IsInvalid(e) == e.id \notin valid
             validEvents == SelectSeq(slotEvents, IsValid)
             invalidEvents == SelectSeq(slotEvents, IsInvalid)
         IN IF Len(validEvents) > 0
            THEN invalidEvents \o Tail(validEvents)
            ELSE Tail(slotEvents)

\* the ids the loop over Object.entries(timeSlots) deletes, in order
RECURSIVE SweepPlan(_, _, _)
SweepPlan(keys, listing, valid) ==
    IF keys = <<>> THEN <<>>
    ELSE LET InSlot(e) == e.start = Head(keys)
             dels == SlotDeletes(SelectSeq(listing, InSlot), valid)
         IN [i \in DOMAIN dels |-> dels[i].id]
               \o SweepPlan(Tail(keys), listing, valid)

\* cleanCalendarDuplicates: authenticate and the query of the scheduled rows
\* with an event id; a rejection is caught and 0 returned
cleanCalendarDuplicates ==
    /\ SweepIdle \/ AfterDbSweep
    /\ \/ sweep' = [IdleSweep EXCEPT
               !.entry = "clean-calendar", !.pc = "callist",
               !.valid = {a.evt : a \in ScheduledWithEvent}]
       \/ sweep' = [IdleSweep EXCEPT !.entry = "clean-calendar",
                                     !.pc = "done", !.ret = 0]
    /\ UNCHANGED <<syncManager, now, serverOffset, chatVars, auth, storeVars, calVars, task,
                   book, startCalls, lastGrant, grantGap>>

\* the listing and the grouping by slot; a rejection of the listing is
\* caught and 0 returned
CalList ==
    /\ sweep.pc = "callist"
    /\ \/ \E q \in Listings(getUpcomingAppointments(windowDays)) :
            LET plan == SweepPlan(SlotKeys(q, {}), q, sweep.valid)
            IN sweep' = [sweep EXCEPT
                   !.listing = q, !.plan = plan,
                   !.pc = IF plan = <<>> THEN "done" ELSE "caldelete",
                   !.ret = IF plan = <<>> THEN 0 ELSE NoReturn]
       \/ sweep' = [sweep EXCEPT !.pc = "done", !.ret = 0]
    /\ UNCHANGED <<syncManager, now, serverOffset, chatVars, auth, storeVars, calVars, task,
                   book, startCalls, lastGrant, grantGap>>

\* one cancelAppointment of the loop: events.delete removes the event, or
\* rejects (the provider answers an id it no longer has with an error), and
\* cancelAppointment rethrows into the catch of cleanCalendarDuplicates
CalDelete ==
    /\ sweep.pc = "caldelete"
    /\ LET id == Head(sweep.plan)
           rest == Tail(sweep.plan)
           gone == ~\E e \in events : e.id = id
       IN \/ /\ ~gone
             /\ events' = {e \in events : e.id # id}
             /\ LET n == sweep.totalDeleted + 1
                IN sweep' = [sweep EXCEPT
                       !.plan = rest, !.totalDeleted = n,
                       !.calls = Append(@, [evt |-> id, gone |-> FALSE,
                                            ok |-> TRUE]),
                       !.pc = IF rest = <<>> THEN "done" ELSE "caldelete",
                       !.ret = IF rest = <<>> THEN n ELSE NoReturn]
          \/ /\ UNCHANGED events
             /\ sweep' = [sweep EXCEPT
                    !.plan = rest,
                    !.calls = Append(@, [evt |-> id, gone |-> gone,
                                         ok |-> FALSE]),
                    !.pc = "done", !.ret = 0]
    /\ UNCHANGED <<syncManager, now, serverOffset, chatVars, auth, storeVars, nextEvt, task,
                   book, startCalls, lastGrant, grantGap>>

\* ---- AppointmentBot.confirmCancellation ---------------------------------
\* the patient confirms the cancellation of a scheduled appointment: the
\* event is deleted (a rejection is swallowed), then the row is updated
confirmCancellation(b) ==
    /\ book[b].pc = "idle"
    /\ \E a \in appointments :
          /\ a.status = "scheduled"
          /\ book' = [book EXCEPT ![b] =
                 [IdleBooker EXCEPT !.pc = "cancelling", !.id = a.id,
                                    !.phone = a.phone]]
          /\ \/ events' = {e \in events : e.id # a.evt}
             \/ UNCHANGED events
    /\ UNCHANGED <<syncManager, now, serverOffset, chatVars, auth, storeVars, nextEvt, task,
                   sweep, startCalls, lastGrant, grantGap>>

\* mutation: the row is cancelled only when the event is gone
CancelUpdateWhenDeleted(b) ==
    /\ book[b].pc = "cancelling"
    /\ appointments' =
          {IF a.id = book[b].id /\ ~\E e \in events : e.id = a.evt
           THEN [a EXCEPT !.status = "cancelled"]
           ELSE a : a \in appointments}
    /\ book' = [book EXCEPT ![b].pc = "sendCancelled"]
    /\ UNCHANGED <<syncManager, now, serverOffset, chatVars, auth, nextId,
                   calVars, task, sweep, startCalls, lastGrant, grantGap>>

\* updateAppointment(id, {status: 'cancelled'}); a rejection reaches the
\* outer catch
CancelUpdate(b) ==
    /\ book[b].pc = "cancelling"
    /\ \/ /\ appointments' =
               {IF a.id = book[b].id THEN [a EXCEPT !.status = "cancelled"]
                ELSE a : a \in appointments}
          /\ book' = [book EXCEPT ![b].pc = "sendCancelled"]
       \/ /\ UNCHANGED appointments
          /\ book' = [book EXCEPT ![b].pc = "error"]
    /\ UNCHANGED <<syncManager, now, serverOffset, chatVars, auth, nextId, calVars, task,
                   sweep, startCalls, lastGrant, grantGap>>

\* sendAppointmentCancelled and clearConversationState: the handler ends
SendCancelled(b) ==
    /\ book[b].pc = "sendCancelled"
    /\ book' = [book EXCEPT ![b] = IdleBooker]
    /\ HandlerEnds(book[b].phone)
    /\ UNCHANGED <<syncManager, now, serverOffset, auth, storeVars, calVars,
                   task, sweep, lastGrant, grantGap>>
    /\ startCalls' = <<>>

\* ---- the maintenance script over a store and a calendar -----------------
SweepRow(id, status, evt, created) ==
    [Row(id, "p1", 1, 540, status, evt) EXCEPT !.created = created]

\* three bookings of one slot, the first two possibly made in the same
\* second and with or without an event; the events of the slot that exist;
\* a booking of another slot with its event
InitSweep ==
    /\ InitProcess
    /\ serverOffset = 0
    /\ \E c2 \in {StartTime - 2, StartTime - 1},
          g1 \in {0, 1}, g2 \in {0, 2} :
          appointments = {SweepRow(1, "scheduled", g1, StartTime - 2),
                          SweepRow(2, "scheduled", g2, c2),
                          SweepRow(3, "scheduled", 3, StartTime),
                          Row(4, "p2", 1, 570, "scheduled", 4)}
    /\ nextId = 5
    /\ \E present \in SUBSET {1, 2, 3} :
          events = {Event(i, 1, 540, "p1") : i \in present}
                      \cup {Event(4, 1, 570, "p2")}
    /\ nextEvt = 5

NextSweep ==
    \/ cleanDbDuplicates
    \/ CleanDbGroup
    \/ cleanCalendarDuplicates
    \/ CalList
    \/ CalDelete
    \/ \E b \in {"b1"} : confirmCancellation(b) \/ CancelUpdate(b)
                          \/ SendCancelled(b) \/ SendError(b)

SpecSweep == InitSweep /\ [][NextSweep]_vars

\* every gateway call and store write of the pass so far succeeded
AllSucceeded(t) == \A i \in DOMAIN task[t].log : task[t].log[i].ok

\* ---- cycles of reconciliation and sweeps ---------------------------------
\* the maintenance script has ended; its next run starts from nothing
SweepExit ==
    /\ sweep.entry = "clean-calendar" /\ sweep.pc = "done"
    /\ syncManager.lastRun < now
    /\ sweep' = IdleSweep
    /\ UNCHANGED <<syncManager, now, serverOffset, chatVars, auth, storeVars, calVars, task,
                   book, startCalls, lastGrant, grantGap>>

\* two appointments booked at StartTime by different patients, for the same
\* time or not, their events made a minute before and at most one of them
\* lost; possibly a second record of the first booking, without an event
InitCycle ==
    /\ InitProcess
    /\ \E t2 \in Times, twice \in BOOLEAN :
          /\ appointments =
                {Row(1, "p1", 1, 540, "scheduled", 1),
                 Row(2, "p2", 1, t2, "scheduled", 2)}
                \cup (IF twice THEN {Row(3, "p1", 1, 540, "scheduled", 0)}
                      ELSE {})
          /\ \E lost \in {0, 1, 2} :
                events =
                    {[e EXCEPT !.created = StartTime - 1] :
                        e \in {x \in {Event(1, 1, 540, "p1"),
                                      Event(2, 1, t2, "p2")} : x.id # lost}}
    /\ nextId = 4
    /\ nextEvt = 3

\* a cycle: a reconciliation pass, the store sweep, the calendar sweep, each
\* call of the provider and of the store succeeding; the next cycle begins
\* at a later reading of the clock
NextCycle ==
    \/ \E t \in {"t1"} :
          \/ SweepIdle /\ syncManager.lastRun < now /\ syncAppointments(t)
          \/ SyncRead(t) /\ ~task'[t].threw
          \/ SyncList(t) /\ ~task'[t].threw
          \/ SyncCreate(t) /\ AllSucceeded(t)'
          \/ SyncUpdate(t) /\ AllSucceeded(t)'
          \/ SyncFinish(t)
          \/ /\ task[t].pc = "done" /\ syncManager.lastRun = now
             /\ cleanDbDuplicates
    \/ CleanDbGroup /\ ~sweep'.threw
    \/ AfterDbSweep /\ cleanCalendarDuplicates /\ sweep'.pc = "callist"
    \/ /\ CalList
       /\ Len(sweep'.listing) = Cardinality(getUpcomingAppointments(windowDays))
    \/ CalDelete /\ \A i \in DOMAIN sweep'.calls : sweep'.calls[i].ok
    \/ SweepExit
    \/ /\ sweep.entry = "clean-calendar" /\ sweep.pc = "done"
       /\ syncManager.lastRun = now
       /\ Tick(CycleClock)

\* a step that is possible is taken: the timer and the operator keep the
\* cycles going and every await resolves
SpecCycle == InitCycle /\ [][NextCycle]_vars /\ WF_vars(NextCycle)

\* ---- bookings beside the full sync ---------------------------------------
\* a patient books, one conversation at a time, while performFullSync runs
\* on its timer or by hand
NextBookAndSync ==
    \/ \E b \in {"b1"} :
          \/ confirmAppointmentInTurn(b)
          \/ SaveAppointmentInsert(b)
          \/ ConfirmLookup(b)
          \/ ConfirmCreateEvent(b)
          \/ SendConfirmation(b)
    \/ \E t \in {"t1"} :
          \/ performFullSync(t)
          \/ FullValidate(t)
          \/ FullValidateItem(t)
          \/ FullSyncAppointments(t)
          \/ FullRetry(t)
          \/ FullRetryItem(t)
          \/ FullCleanup(t)
    \/ Tick(GateClock)

\* a server in the configured zone, one appointment with its event booked
\* before
InitBookAndSync ==
    /\ InitProcess
    /\ serverOffset = configOffset
    /\ appointments = {Row(1, "p1", 1, 540, "scheduled", 1)}
    /\ nextId = 2
    /\ events = {Event(1, 1, 540, "p1")}
    /\ nextEvt = 2

SpecBookAndSync == InitBookAndSync /\ [][NextBookAndSync]_vars

\* ---- cancellations beside a reconciliation pass ---------------------------
\* two appointments booked at StartTime, each event in place or lost, the
\* second possibly moved
InitSyncAndCancel ==
    /\ InitProcess
    /\ serverOffset = configOffset
    /\ appointments = {Row(1, "p1", 1, 540, "scheduled", 1),
                       Row(2, "p2", 1, 570, "scheduled", 2)}
    /\ nextId = 3
    /\ \E E1 \in {{}, {Event(1, 1, 540, "p1")}},
          E2 \in {{}, {Event(2, 1, 570, "p2")}, {Event(2, 2, 570, "p2")}} :
          events = E1 \cup E2
    /\ nextEvt = 3

NextSyncAndCancel ==
    \/ \E t \in {"t1"} :
          \/ syncAppointments(t)
          \/ SyncRead(t)
          \/ SyncList(t)
          \/ SyncCreate(t)
          \/ SyncUpdate(t)
          \/ SyncFinish(t)
    \/ \E b \in {"b1"} : confirmCancellation(b) \/ CancelUpdate(b)
                          \/ SendCancelled(b) \/ SendError(b)

SpecSyncAndCancel == InitSyncAndCancel /\ [][NextSyncAndCancel]_vars

\* ---- AppointmentBot: the conversation ----------------------------------
\* the characters a message is made of: digits, a letter, a period, a space
Chars == {"1", "2", "3", "4", "a", ".", " "}
Digits == {"1", "2", "3", "4"}
MaxLen == 2
Messages == UNION {[1..n -> Chars] : n \in 1..MaxLen}
Choices == {<<d>> : d \in Digits}

\* String.prototype.trim
RECURSIVE TrimStart(_)
TrimStart(m) ==
    IF m # <<>> /\ Head(m) = " " THEN TrimStart(Tail(m)) ELSE m

RECURSIVE TrimEnd(_)
TrimEnd(m) ==
    IF m # <<>> /\ m[Len(m)] = " " THEN TrimEnd(SubSeq(m, 1, Len(m) - 1))
    ELSE m

Trim(m) == TrimEnd(TrimStart(m))

DigitValue(c) ==
    CASE c = "1" -> 1 [] c = "2" -> 2 [] c = "3" -> 3 [] c = "4" -> 4

RECURSIVE LeadingDigits(_, _)
LeadingDigits(m, acc) ==
    IF m # <<>> /\ Head(m) \in Digits
    THEN LeadingDigits(Tail(m), acc * 10 + DigitValue(Head(m)))
    ELSE acc

\* parseInt: leading white space skipped, then the longest run of digits;
\* NaN when there is none
NaN == -1
parseInt(m) ==
    LET t == TrimStart(m)
    IN IF t # <<>> /\ Head(t) \in Digits THEN LeadingDigits(t, 0) ELSE NaN

\* the name test of handleNameCollection and handleIncomingMessage: 2 to 50
\* characters, each a letter, white space, hyphen, apostrophe or period
NameChars == Chars \ Digits
ValidName(name) ==
    /\ Len(name) >= 2
    /\ Len(name) <= 50
    /\ \A i \in 1..Len(name) : name[i] \in NameChars

\* a set of numbers as the ascending list
RECURSIVE Ascending(_)
Ascending(S) ==
    IF S = {} THEN <<>>
    ELSE LET least == CHOOSE x \in S : \A y \in S : x <= y
         IN <<least>> \o Ascending(S \ {least})

\* the dates offered for booking
getAvailableDates == Ascending(Dates)

\* AppointmentBot.getAvailableSlots: the gateway's answer, or the fallback
\* when the gateway call is rejected
AvailableSlotList(date, gatewayOk) ==
    Ascending(IF gatewayOk THEN GatewayAvailableSlots(date)
              ELSE generateBasicSlots(date))

\* getUserAppointments: the phone's rows, of one status or of any, ORDER BY
\* appointment_date, appointment_time; the ids of the rows in that order
RECURSIVE InOrder(_)
InOrder(R) ==
    IF R = {} THEN <<>>
    ELSE LET first == CHOOSE a \in R : \A o \in R :
                 \/ a.date < o.date
                 \/ a.date = o.date /\ a.time < o.time
                 \/ a.date = o.date /\ a.time = o.time /\ a.id <= o.id
         IN <<first.id>> \o InOrder(R \ {first})

getUserAppointments(phone, status) ==
    InOrder({a \in appointments :
                a.phone = phone /\ (status = "any" \/ a.status = status)})

\* the row saved by updateConversationState(phone, MAIN_MENU, {})
MainMenu == [NoConversation EXCEPT !.state = "main_menu"]

startSchedulingFlow ==
    [MainMenu EXCEPT !.state = "selecting_date", !.dates = getAvailableDates]

\* startReschedulingFlow, startCancellationFlow, showUserAppointments: the
\* list of appointments, or the main menu when there is none
AppointmentList(phone, status, state) ==
    LET appts == getUserAppointments(phone, status)
    IN IF appts = <<>> THEN MainMenu
       ELSE [MainMenu EXCEPT !.state = state, !.appts = appts]

startReschedulingFlow(phone) ==
    AppointmentList(phone, "scheduled", "selecting_appointment_to_reschedule")

startCancellationFlow(phone) ==
    AppointmentList(phone, "scheduled", "selecting_appointment_to_cancel")

showUserAppointments(phone) ==
    AppointmentList(phone, "any", "viewing_appointments")

handleMainMenu(phone, choice, c) ==
    CASE choice = 1 -> startSchedulingFlow
      [] choice = 2 -> startReschedulingFlow(phone)
      [] choice = 3 -> startCancellationFlow(phone)
      [] choice = 4 -> showUserAppointments(phone)
      [] OTHER -> c

\* handleDateSelection and handleRescheduleDateSelection: an index outside
\* the list or a date without slots sends the list again; else the slots of
\* the date are offered
DateSelected(choice, c, gatewayOk, next) ==
    IF choice - 1 < 0 \/ choice - 1 >= Len(c.dates) THEN c
    ELSE LET selectedDate == c.dates[choice]
             availableSlots == AvailableSlotList(selectedDate, gatewayOk)
         IN IF availableSlots = <<>> THEN c
            ELSE [MainMenu EXCEPT !.state = next, !.dates = c.dates,
                                  !.date = selectedDate,
                                  !.slots = availableSlots,
                                  !.appt = c.appt]

handleDateSelection(choice, c, gatewayOk) ==
    DateSelected(choice, c, gatewayOk, "selecting_time")

handleRescheduleDateSelection(choice, c, gatewayOk) ==
    DateSelected(choice, c, gatewayOk, "rescheduling_time")

\* handleTimeSelection and handleRescheduleTimeSelection: one past the list
\* is "choose a different date", two past it the main menu
TimeSelected(choice, c, back, next) ==
    IF choice = Len(c.slots) + 1
    THEN [MainMenu EXCEPT !.state = back, !.dates = c.dates, !.appt = c.appt]
    ELSE IF choice = Len(c.slots) + 2 THEN MainMenu
    ELSE IF choice - 1 < 0 \/ choice - 1 >= Len(c.slots) THEN c
    ELSE [c EXCEPT !.state = next, !.time = c.slots[choice]]

handleTimeSelection(choice, c) ==
    TimeSelected(choice, c, "selecting_date", "confirming_appointment")

RescheduleTimeSelected(choice, c) ==
    TimeSelected(choice, c, "rescheduling_date", "confirming_reschedule")

\* handleAppointmentConfirmation and handleRescheduleConfirmation for the
\* replies other than 1: 2 leaves for the main menu, 3 goes back to the slots
Declined(choice, c, back) ==
    CASE choice = 2 -> MainMenu
      [] choice = 3 -> [c EXCEPT !.state = back, !.time = 0]
      [] OTHER -> c

handleAppointmentConfirmation(choice, c) ==
    Declined(choice, c, "selecting_time")

handleRescheduleConfirmation(choice, c) ==
    Declined(choice, c, "rescheduling_time")

handleCancellationConfirmation(choice, c) ==
    IF choice = 2 THEN MainMenu ELSE c

\* handleAppointmentSelectionForReschedule, ...ForCancel: one past the list
\* is the main menu, an index outside it starts the flow again
handleAppointmentSelectionForReschedule(phone, choice, c) ==
    IF choice = Len(c.appts) + 1 THEN MainMenu
    ELSE IF choice - 1 < 0 \/ choice - 1 >= Len(c.appts)
    THEN startReschedulingFlow(phone)
    ELSE [MainMenu EXCEPT !.state = "rescheduling_date",
                          !.dates = getAvailableDates,
                          !.appt = c.appts[choice]]

handleAppointmentSelectionForCancel(phone, choice, c) ==
    IF choice = Len(c.appts) + 1 THEN MainMenu
    ELSE IF choice - 1 < 0 \/ choice - 1 >= Len(c.appts)
    THEN startCancellationFlow(phone)
    ELSE [MainMenu EXCEPT !.state = "confirming_cancellation",
                          !.appts = c.appts,
                          !.appt = c.appts[choice]]

handleViewAppointments(phone, choice) ==
    IF choice = 1 THEN MainMenu ELSE showUserAppointments(phone)

\* handleNameCollection: a name that passes the test is stored and the
\* conversation moves to the main menu
handleNameCollection(message, c) ==
    IF ValidName(Trim(message)) THEN MainMenu ELSE c

\* handleInvalidInput sends a hint and saves nothing
handleInvalidInput(c) == c

\* the reply is not a positive number: handleInvalidInput, whatever the state
InvalidChoice(choice) == choice = NaN \/ choice <= 0

processMessage(phone, message, c, gatewayOk) ==
    LET choice == parseInt(message)
    IN IF InvalidChoice(choice) THEN handleInvalidInput(c)
       ELSE CASE c.state = "main_menu" -> handleMainMenu(phone, choice, c)
              [] c.state = "selecting_date" ->
                    handleDateSelection(choice, c, gatewayOk)
              [] c.state = "selecting_time" -> handleTimeSelection(choice, c)
              [] c.state = "confirming_appointment" ->
                    handleAppointmentConfirmation(choice, c)
              [] c.state = "viewing_appointments" ->
                    handleViewAppointments(phone, choice)
              [] c.state = "selecting_appointment_to_reschedule" ->
                    handleAppointmentSelectionForReschedule(phone, choice, c)
              [] c.state = "selecting_appointment_to_cancel" ->
                    handleAppointmentSelectionForCancel(phone, choice, c)
              [] c.state = "rescheduling_date" ->
                    handleRescheduleDateSelection(choice, c, gatewayOk)
              [] c.state = "rescheduling_time" ->
                    RescheduleTimeSelected(choice, c)
              [] c.state = "confirming_reschedule" ->
                    handleRescheduleConfirmation(choice, c)
              [] c.state = "confirming_cancellation" ->
                    handleCancellationConfirmation(choice, c)
              [] c.state = "collecting_name" ->
                    handleNameCollection(message, c)
              [] OTHER -> c

\* the name processMessage leaves in the patients table
NameAfter(phone, message, c) ==
    IF /\ c.state = "collecting_name"
       /\ ~InvalidChoice(parseInt(message))
       /\ ValidName(Trim(message))
    THEN Trim(message)
    ELSE patients[phone]

\* the reply 1 in one of the confirming states: the confirm* handler runs
ConfirmStates ==
    {"confirming_appointment", "confirming_reschedule",
     "confirming_cancellation"}

Confirms(state) ==
    /\ inbound # NoMessage
    /\ conversation_states[inbound.from].state = state
    /\ parseInt(Trim(inbound.body)) = 1

\* the client's message event: a message arrives while none is being handled
onMessage(phone, message, notifyName) ==
    /\ inbound = NoMessage
    /\ \A b \in Bookers : book[b].pc = "idle"
    /\ inbound' = [from |-> phone, body |-> message,
                   notifyName |-> notifyName]
    /\ UNCHANGED <<syncManager, now, serverOffset, conversation_states,
                   patients, auth, storeVars, calVars, task, book, sweep,
                   lastGrant, grantGap>>
    /\ startCalls' = <<>>

\* handleIncomingMessage for every message but a confirmation: without a
\* conversation row the patient is asked for a name, unless the contact
\* name passes the test, or is shown the menu; with one, processMessage
handleIncomingMessage ==
    /\ inbound # NoMessage
    /\ \A state \in ConfirmStates : ~Confirms(state)
    /\ LET phone == inbound.from
           c == conversation_states[phone]
           message == Trim(inbound.body)
       IN IF c.state = "none"
          THEN IF patients[phone] = NullName
               THEN IF ValidName(inbound.notifyName)
                    THEN /\ patients' = [patients EXCEPT
                                            ![phone] = inbound.notifyName]
                         /\ conversation_states' =
                               [conversation_states EXCEPT ![phone] = MainMenu]
                    ELSE /\ UNCHANGED patients
                         /\ conversation_states' =
                               [conversation_states EXCEPT ![phone] =
                                   [MainMenu EXCEPT !.state = "collecting_name"]]
               ELSE /\ UNCHANGED patients
                    /\ conversation_states' =
                          [conversation_states EXCEPT ![phone] = MainMenu]
          ELSE \E gatewayOk \in BOOLEAN :
                  /\ conversation_states' =
                        [conversation_states EXCEPT ![phone] =
                            processMessage(phone, message, c, gatewayOk)]
                  /\ patients' = [patients EXCEPT ![phone] =
                                     NameAfter(phone, message, c)]
    /\ inbound' = NoMessage
    /\ UNCHANGED <<syncManager, now, serverOffset, auth, storeVars, calVars,
                   task, book, sweep, lastGrant, grantGap>>
    /\ startCalls' = <<>>

\* handleAppointmentConfirmation, reply 1: confirmAppointment for the slot
\* of the conversation
ChooseConfirmAppointment(b) ==
    /\ Confirms("confirming_appointment")
    /\ confirmAppointmentInTurn(b)
    /\ book'[b].phone = inbound.from
    /\ book'[b].date = conversation_states[inbound.from].date
    /\ book'[b].time = conversation_states[inbound.from].time

\* handleCancellationConfirmation, reply 1: confirmCancellation for the
\* appointment of the conversation
ChooseConfirmCancellation(b) ==
    /\ Confirms("confirming_cancellation")
    /\ InTurn(b)
    /\ confirmCancellation(b)
    /\ book'[b].id = conversation_states[inbound.from].appt

\* handleRescheduleConfirmation, reply 1: confirmReschedule for the
\* appointment and the slot of the conversation
ChooseConfirmReschedule(b) ==
    /\ Confirms("confirming_reschedule")
    /\ book[b].pc = "idle" /\ InTurn(b)
    /\ book' = [book EXCEPT ![b] =
          [IdleBooker EXCEPT !.pc = "reschedule", !.phone = inbound.from,
                !.id = conversation_states[inbound.from].appt,
                !.date = conversation_states[inbound.from].date,
                !.time = conversation_states[inbound.from].time]]
    /\ UNCHANGED <<syncManager, now, serverOffset, chatVars, auth, storeVars,
                   calVars, task, sweep, lastGrant, grantGap>>
    /\ startCalls' = <<>>

\* the contact names a message can carry: none, or one that passes the test
NotifyNames == {NullName, <<"a", "a">>}

\* a server in the configured zone, one appointment of the first patient
\* with its event, no conversation under way
InitChat ==
    /\ InitProcess
    /\ serverOffset = configOffset
    /\ appointments = {Row(1, "p1", 1, 540, "scheduled", 1)}
    /\ nextId = 2
    /\ events = {Event(1, 1, 540, "p1")}
    /\ nextEvt = 2

\* the conversation of one patient up to the confirmation
NextChat ==
    \/ \E message \in Messages, notifyName \in NotifyNames :
          onMessage("p1", message, notifyName)
    \/ handleIncomingMessage

SpecChat == InitChat /\ [][NextChat]_vars

\* the conversations of one patient, replies of one digit, through the
\* confirm* handlers
NextConfirm ==
    \/ \E message \in Choices : onMessage("p1", message, <<"a", "a">>)
    \/ handleIncomingMessage
    \/ \E b \in {"b1"} :
          \/ ChooseConfirmAppointment(b)
          \/ SaveAppointmentInsert(b)
          \/ ConfirmLookup(b)
          \/ ConfirmCreateEvent(b)
          \/ SendConfirmation(b)
          \/ ChooseConfirmCancellation(b)
          \/ CancelUpdate(b)
          \/ SendCancelled(b)
          \/ ChooseConfirmReschedule(b)
          \/ confirmReschedule(b)
          \/ RescheduleUpdate(b)
          \/ SendRescheduled(b)
          \/ SendError(b)

\* the same store, with room for one more row and one more event
InitConfirm ==
    /\ InitProcess
    /\ serverOffset = configOffset
    /\ appointments = {Row(1, "p1", 1, 540, "scheduled", 1)}
    /\ nextId = MaxAppts
    /\ events = {Event(1, 1, 540, "p1")}
    /\ nextEvt = MaxEvents

SpecConfirm == InitConfirm /\ [][NextConfirm]_vars

\* ---- GoogleCalendarService: the tokens -----------------------------------
GatewayOps == {"createEvent", "deleteEvent", "getUpcomingAppointments"}

authFrame ==
    UNCHANGED <<syncManager, now, serverOffset, chatVars, storeVars, calVars, task,
                book, sweep, startCalls, lastGrant, grantGap>>

\* a gateway operation starts with ensureValidTokens: authenticate() when
\* the service is not authenticated, else testConnection()
ensureValidTokens(op) ==
    /\ auth.pc \in {"idle", "done"}
    /\ auth' = [auth EXCEPT
           !.op = op, !.refreshes = 0, !.stale = FALSE, !.result = "none",
           !.refreshFailed = FALSE, !.called = FALSE,
           !.pc = IF auth.isAuthenticated THEN "test" ELSE "authenticate"]
    /\ authFrame

\* what ensureValidTokens' catch does with an error canRefreshTokens accepts
\* (every testConnection error says 'Token validation failed', a revoked
\* refresh token answers 'invalid_grant'): refreshTokens() when
\* GOOGLE_REFRESH_TOKEN is set, else the error goes to the caller
EnsureCatch(g) ==
    IF g.refreshToken # "none"
    THEN [g EXCEPT !.pc = "refresh"]
    ELSE [g EXCEPT !.pc = "done", !.result = "threw"]

\* ensureValidTokens' testConnection: one calendarList.list with the
\* client's token
EnsureTest ==
    /\ auth.pc = "test"
    /\ auth' = IF auth.clientOk
               THEN [auth EXCEPT !.pc = "call"]
               ELSE EnsureCatch([auth EXCEPT !.stale = TRUE])
    /\ authFrame

\* mutation: a rejected refresh is logged and the operation goes on
RefreshTokensGoesOn ==
    /\ auth.pc = "refresh"
    /\ auth' = [auth EXCEPT !.refreshes = @ + 1,
                            !.refreshFailed = auth.refreshToken # "good",
                            !.clientOk = @ \/ auth.refreshToken = "good",
                            !.pc = "call"]
    /\ authFrame

\* refreshTokens() in ensureValidTokens' catch: one refreshAccessToken; a
\* rejection clears isAuthenticated and reaches the caller
RefreshTokens ==
    /\ auth.pc = "refresh"
    /\ auth' = IF auth.refreshToken = "good"
               THEN [auth EXCEPT !.refreshes = @ + 1, !.clientOk = TRUE,
                                 !.pc = "call"]
               ELSE [auth EXCEPT !.refreshes = @ + 1,
                                 !.refreshFailed = TRUE,
                                 !.isAuthenticated = FALSE,
                                 !.pc = "done", !.result = "threw"]
    /\ authFrame

\* authenticate(): the tokens of process.env are set on the client and
\* tested; a failed test goes to the refresh branch when there is a refresh
\* token, else authenticate throws into ensureValidTokens' catch
Authenticate ==
    /\ auth.pc = "authenticate"
    /\ LET g == [auth EXCEPT !.clientOk = auth.envOk]
       IN auth' = IF g.clientOk
                  THEN [g EXCEPT !.isAuthenticated = TRUE, !.pc = "call"]
                  ELSE IF g.refreshToken # "none"
                  THEN [g EXCEPT !.stale = TRUE, !.pc = "auth-refresh"]
                  ELSE EnsureCatch([g EXCEPT !.stale = TRUE,
                                             !.isAuthenticated = FALSE])
    /\ authFrame

\* the refresh branch of authenticate(): one refreshAccessToken; a rejection
\* is thrown on as 'authentication failed: invalid_grant ...' into
\* ensureValidTokens' catch
AuthRefresh ==
    /\ auth.pc = "auth-refresh"
    /\ auth' = IF auth.refreshToken = "good"
               THEN [auth EXCEPT !.refreshes = @ + 1, !.clientOk = TRUE,
                                 !.pc = "auth-retest"]
               ELSE EnsureCatch([auth EXCEPT !.refreshes = @ + 1,
                                             !.refreshFailed = TRUE,
                                             !.isAuthenticated = FALSE])
    /\ authFrame

\* the second testConnection of authenticate(), with the refreshed token
AuthRetest ==
    /\ auth.pc = "auth-retest"
    /\ auth' = IF auth.clientOk
               THEN [auth EXCEPT !.isAuthenticated = TRUE, !.pc = "call"]
               ELSE EnsureCatch([auth EXCEPT !.isAuthenticated = FALSE])
    /\ authFrame

\* the API call of the operation itself
GatewayCall ==
    /\ auth.pc = "call"
    /\ auth' = [auth EXCEPT !.pc = "done", !.called = TRUE,
                            !.result = IF auth.clientOk THEN "ok" ELSE "threw"]
    /\ authFrame

\* the provider's side: an access token expires, the refresh token is revoked
TokenExpires ==
    /\ \/ auth.clientOk /\ auth' = [auth EXCEPT !.clientOk = FALSE]
       \/ auth.envOk /\ auth' = [auth EXCEPT !.envOk = FALSE]
       \/ /\ auth.refreshToken = "good"
          /\ auth' = [auth EXCEPT !.refreshToken = "revoked"]
    /\ authFrame

\* the service after the startup's authenticate(), which succeeded or not
InitAuth ==
    /\ syncManager = [isRunning |-> FALSE, lastRun |-> 0]
    /\ now = StartTime
    /\ serverOffset = 0
    /\ appointments = {}
    /\ nextId = 1
    /\ events = {}
    /\ nextEvt = 1
    /\ task = [t \in Tasks |-> IdleTask]
    /\ book = [b \in Bookers |-> IdleBooker]
    /\ sweep = IdleSweep
    /\ startCalls = <<>>
    /\ lastGrant = NoGrant
    /\ grantGap = minInterval
    /\ conversation_states = [p \in Phones |-> NoConversation]
    /\ patients = [p \in Phones |-> NullName]
    /\ inbound = NoMessage
    /\ \E ok \in BOOLEAN, rt \in {"none", "good", "revoked"} :
          auth = [IdleGateway EXCEPT !.isAuthenticated = ok, !.clientOk = ok,
                                     !.envOk = ok, !.refreshToken = rt]

NextAuth ==
    \/ \E op \in GatewayOps : ensureValidTokens(op)
    \/ EnsureTest
    \/ RefreshTokens
    \/ Authenticate
    \/ AuthRefresh
    \/ AuthRetest
    \/ GatewayCall
    \/ TokenExpires

SpecAuth == InitAuth /\ [][NextAuth]_vars

\* ---- the entry points under the manager ----------------------------------
\* a store left by earlier runs: one appointment whose event is gone, one
\* that never got an event
InitGate ==
    /\ InitProcess
    /\ serverOffset = 0
    /\ appointments = {Row(1, "p1", 1, 540, "scheduled", 1),
                       Row(2, "p2", 1, 570, "scheduled", 0)}
    /\ nextId = 3
    /\ events = {}
    /\ nextEvt = 4

EntryStep(t) ==
    \/ syncAppointments(t)
    \/ performFullSync(t)
    \/ fullSync(t)
    \/ periodicSync(t)
    \/ initialSync(t)

BodyStep(t) ==
    \/ SyncRead(t)
    \/ SyncList(t)
    \/ SyncCreate(t)
    \/ SyncUpdate(t)
    \/ SyncFinish(t)
    \/ FullValidate(t)
    \/ FullValidateItem(t)
    \/ FullSyncAppointments(t)
    \/ FullRetry(t)
    \/ FullRetryItem(t)
    \/ FullCleanup(t)
    \/ BotSyncExisting(t)
    \/ BotSyncItem(t)
    \/ BotRepopulate(t)

NextGate ==
    \/ \E t \in Tasks : EntryStep(t) \/ BodyStep(t)
    \/ Tick(GateClock)

SpecGate == InitGate /\ [][NextGate]_vars

\* the bot's full sync over a store that lost rows: appointment 1 with or
\* without its event id; in the calendar its event, the event of a lost
\* appointment of another patient, an event that names no patient
InitImport ==
    /\ InitProcess
    /\ serverOffset = 0
    /\ \E g1 \in {0, 1} :
          appointments = {Row(1, "p1", 1, 540, "scheduled", g1)}
    /\ nextId = 2
    /\ \E present \in SUBSET {1, 2, 3} :
          events = {e \in {Event(1, 1, 540, "p1"), Event(2, 1, 570, "p2"),
                           Event(3, 2, 540, "none")} : e.id \in present}
    /\ nextEvt = 4

NextImport ==
    \/ \E t \in Tasks :
          \/ fullSync(t)
          \/ BotSyncExisting(t)
          \/ BotSyncItem(t)
          \/ BotRepopulate(t)
    \/ Tick(GateClock)

SpecImport == InitImport /\ [][NextImport]_vars

\* an operator calls forceReset(); nothing in the repository does
ForceReset ==
    /\ syncManager' = forceReset(syncManager)
    /\ lastGrant' = NoGrant
    /\ startCalls' = <<>>
    /\ UNCHANGED <<now, serverOffset, chatVars, auth, storeVars, calVars, task, book,
                   grantGap, sweep>>

\* the store of InitGate over a calendar that takes no further event: the
\* event of the first appointment is gone or has been moved
InitGateReset ==
    /\ InitProcess
    /\ serverOffset = 0
    /\ appointments = {Row(1, "p1", 1, 540, "scheduled", 1),
                       Row(2, "p2", 1, 570, "scheduled", 0)}
    /\ nextId = 3
    /\ events \in {{}, {Event(1, 2, 540, "p1")}}
    /\ nextEvt = MaxEvents + 1

NextGateReset ==
    \/ NextGate
    \/ ForceReset

SpecGateReset == InitGateReset /\ [][NextGateReset]_vars

\* ---- properties of the coordinator ---------------------------------------
Holding == {t \in Tasks : task[t].holds}

\* C2: at most one entry point that obtained start() = true is between that
\* call and its return at any time, however long it takes.
C2_OnePassAtATime == Cardinality(Holding) <= 1

FullSyncStages == {"validate", "reconcile", "retry", "cleanup"}

\* C3: when a timer or startup callback that the coordinator admitted has
\* finished, validation, reconciliation, retry-unsynced and cleanup have
\* been carried out in that trigger.
C3_AdmittedTimerRunsFullSync ==
    \A t \in Tasks :
        (/\ task[t].entry \in {"timer", "startup"}
         /\ task[t].pc = "done" /\ task[t].admitted /\ ~task[t].threw)
        => FullSyncStages \subseteq task[t].did

\* C4: when an entry point that obtained the gate returns or throws, the
\* coordinator's running flag is false.
C4_GateReleased ==
    [][\A t \in Tasks :
          (task[t].holds /\ ~task'[t].holds) => ~syncManager'.isRunning]_vars

C4_Witness ==
    \E t \in Tasks :
        /\ task[t].pc = "done" /\ task[t].admitted /\ task[t].threw
        /\ ~syncManager.isRunning
        /\ syncManager.lastRun >= StartTime

\* C5: a start() call returns false and leaves isRunning and lastRun alone
\* when the manager is running or less than minInterval has passed since
\* lastRun; otherwise it returns true and leaves isRunning = true and
\* lastRun = the time of the call.
C5_StartContract ==
    \A i \in DOMAIN startCalls :
        LET c == startCalls[i] IN
            IF c.pre.isRunning \/ c.at - c.pre.lastRun < minInterval
            THEN ~c.ret /\ c.post = c.pre
            ELSE c.ret /\ c.post = [isRunning |-> TRUE, lastRun |-> c.at]

C5_Witness ==
    \E i \in DOMAIN startCalls :
        /\ ~startCalls[i].ret
        /\ ~startCalls[i].pre.isRunning
        /\ startCalls[i].at > startCalls[i].pre.lastRun

\* C6: two start() calls that both return true with no forceReset() between
\* them are at least minInterval apart, whatever stop() calls lie between.
C6_RateLimited == grantGap >= minInterval

C6_Witness ==
    \E i \in DOMAIN startCalls :
        /\ startCalls[i].ret
        /\ startCalls[i].pre.lastRun >= StartTime
        /\ lastGrant = startCalls[i].at

\* ---- a reconciliation pass over a store and a calendar -------------------
NextSync ==
    \/ \E t \in {"t1"} :
          \/ syncAppointments(t)
          \/ SyncRead(t)
          \/ SyncList(t)
          \/ SyncCreate(t)
          \/ SyncUpdate(t)
          \/ SyncFinish(t)
    \/ Tick(SyncClock)

SpecSync == InitSync /\ [][NextSync]_vars

\* ---- properties of the reconciliation pass -------------------------------
Diffed(t) == task[t].pc \in {"create", "update", "finish"}

MissingFromListing(t, a) == ~\E e \in task[t].listing : e.id = a.evt

QueuedForRecreate(t, a) ==
    \/ a \in task[t].toCreate
    \/ \E i \in DOMAIN task[t].log :
          task[t].log[i].op = "create" /\ task[t].log[i].appt = a.id

\* C7: in a reconciliation pass a scheduled appointment whose event id is
\* missing from the listing is queued for recreation if and only if it was
\* created at most 24 hours (1440 minutes) before the pass looked at it.
C7_RecreateIffWithin24h ==
    \A t \in Tasks : Diffed(t) =>
        \A a \in task[t].snap : MissingFromListing(t, a) =>
            (QueuedForRecreate(t, a) <=>
                task[t].listedAt - a.created <= recreateHours * MinutesPerHour)

\* the recreate call c of a pass met its promise: it carried the row's
\* date, time and duration, the event exists, and the row now holds the new
\* id instead of the one the pass found missing
RecreateDone(t, c) ==
    /\ HasId(c.appt)
    /\ LET a == ById(c.appt) IN
         /\ c.date = a.date /\ c.time = a.time /\ c.dur = a.dur
         /\ \E e \in events : e.id = c.evt /\ e.dur = a.dur
         /\ a.evt = c.evt
         /\ \A s \in task[t].snap : s.id = a.id => s.evt # a.evt

WriteBackOk(t, i) ==
    /\ i + 1 \in DOMAIN task[t].log
    /\ task[t].log[i + 1].op = "write"
    /\ task[t].log[i + 1].ok

UpdateCalls(t, eventId) ==
    {i \in DOMAIN task[t].log :
        task[t].log[i].op = "update" /\ task[t].log[i].evt = eventId}

Orphan(e) ==
    ~\E a \in appointments : a.status = "scheduled" /\ a.evt = e.id

\* C10: no step of a reconciliation pass deletes or changes an event that no
\* scheduled row references, and none inserts a row.
C10_OrphansUntouched ==
    [][task' # task =>
        /\ \A e \in events : Orphan(e) => e \in events'
        /\ {a.id : a \in appointments'} = {a.id : a \in appointments}]_vars

C10_Witness ==
    \E t \in Tasks :
        /\ task[t].pc = "finish"
        /\ task[t].log # <<>>
        /\ \E e \in task[t].listing : e \in events /\ Orphan(e)

\* C11: when a reconciliation pass has applied its fixes with no failure, a
\* pass run next on the same store and calendar queues nothing: no event
\* create and no event update (a store write only ever follows a create).
C11_SecondPassWritesNothing ==
    \A t \in Tasks :
        (task[t].entry = "sync" /\ task[t].pc = "finish" /\ AllSucceeded(t))
        => /\ ToCreateInCalendar(ScheduledWithEvent,
                                 getUpcomingAppointments(windowDays)) = {}
           /\ ToUpdateInCalendar(ScheduledWithEvent,
                                 getUpcomingAppointments(windowDays)) = {}

\* the log entries the step adds for appointment id
NewCalls(t, id, op) ==
    {i \in DOMAIN task'[t].log :
        /\ i \notin DOMAIN task[t].log
        /\ task'[t].log[i].op = op /\ task'[t].log[i].appt = id}

\* C12: in the apply step every queued item leaves its queue only by being
\* attempted, whatever became of the items before it; the pass reaches its
\* end only with both queues empty; and the pass throws only out of the
\* store read or the calendar listing.
C12_ItemFailuresContained ==
    [][\A t \in Tasks : task[t].entry = "sync" =>
          /\ task[t].pc \in {"create", "update"} =>
                /\ task'[t].pc \in {"create", "update", "finish"}
                /\ task'[t].toCreate \subseteq task[t].toCreate
                /\ task'[t].toUpdate \subseteq task[t].toUpdate
                /\ \A a \in task[t].toCreate \ task'[t].toCreate :
                      NewCalls(t, a.id, "create") # {}
                /\ \A u \in task[t].toUpdate \ task'[t].toUpdate :
                      NewCalls(t, u.id, "update") # {}
          /\ task'[t].pc = "finish" =>
                task'[t].toCreate = {} /\ task'[t].toUpdate = {}
          /\ (task'[t].threw /\ ~task[t].threw) =>
                task[t].pc \in {"read", "list"}]_vars

\* a pass at its end whose log shows a failed call followed by the attempt
\* of another appointment
C12_Witness ==
    \E t \in Tasks :
        /\ task[t].entry = "sync" /\ task[t].pc = "finish" /\ ~task[t].threw
        /\ \E i, j \in DOMAIN task[t].log :
              /\ i < j /\ ~task[t].log[i].ok
              /\ task[t].log[j].appt # task[t].log[i].appt

\* ---- properties of the retry of unsynced appointments --------------------
\* performFullSync has left retryFailedAppointmentSyncs behind
RetryPassed(t) == task[t].entry = "full" /\ task[t].pc = "cleanup"

\* call i of the log is the last create the pass made for its appointment
LastCreate(t, i) ==
    /\ task[t].log[i].op = "create"
    /\ \A j \in DOMAIN task[t].log :
          (j > i /\ task[t].log[j].appt = task[t].log[i].appt)
          => task[t].log[j].op # "create"

\* C13: after the retry of unsynced appointments, every appointment for
\* which the pass created an event (and, granting the claim that much, the
\* store accepted the write-back) carries the id returned for it.
C13_RetriedCarryReturnedId ==
    \A t \in Tasks : RetryPassed(t) =>
        \A i \in DOMAIN task[t].log :
            (LastCreate(t, i) /\ task[t].log[i].ok /\ WriteBackOk(t, i))
            => /\ HasId(task[t].log[i].appt)
               /\ ById(task[t].log[i].appt).evt = task[t].log[i].evt


\* ---- the sweeps ------------------------------------------------------------
ActiveInSlot(rows, g) ==
    {a \in rows : Slot(a) = g /\ a.status \in ActiveStatuses}

\* C14: when the store sweep has treated a slot that held two or more active
\* records, exactly one active record of the slot remains, and it is the
\* earliest-created of them, whatever other records the slot holds
C14_EarliestActiveRemains ==
    [][(sweep.pc = "dbgroup" /\ sweep' # sweep /\ ~sweep'.threw) =>
          \A g \in sweep.groups \ sweep'.groups :
              Cardinality(ActiveInSlot(appointments, g)) >= 2 =>
                  /\ Cardinality(ActiveInSlot(appointments', g)) = 1
                  /\ \A k \in ActiveInSlot(appointments', g) :
                        /\ k \in ActiveInSlot(appointments, g)
                        /\ \A a \in ActiveInSlot(appointments, g) :
                              k.created <= a.created]_vars

CalendarSweepDone == sweep.entry = "clean-calendar" /\ sweep.pc = "done"
SweptIds == {sweep.calls[i].evt : i \in DOMAIN sweep.calls}
AllDeletesSucceeded == \A i \in DOMAIN sweep.calls : sweep.calls[i].ok
Listed == {sweep.listing[i] : i \in DOMAIN sweep.listing}
Position(e) == CHOOSE i \in DOMAIN sweep.listing : sweep.listing[i] = e
SlotGroup(e) == {f \in Listed : f.start = e.start}
Referenced(G) == {f \in G : f.id \in sweep.valid}
FirstListed(G) == {f \in G : \A h \in G : Position(f) <= Position(h)}

C16_DeleteOfGoneEventSucceeds ==
    \A i \in DOMAIN sweep.calls : sweep.calls[i].gone => sweep.calls[i].ok

\* C17: a calendar sweep returns the number of its successful deletes, and a
\* failed delete does not keep it from the deletes that remain
C17_CountsSuccessfulDeletes ==
    CalendarSweepDone =>
        /\ sweep.plan = <<>>
        /\ sweep.ret = Cardinality({i \in DOMAIN sweep.calls : sweep.calls[i].ok})


\* ---- repeated bookings -----------------------------------------------------
RowIds(rows) == {a.id : a \in rows}
ActiveAt(rows, r) ==
    {a \in rows : /\ a.phone = r.phone /\ a.date = r.date /\ a.time = r.time
                  /\ a.status \in ActiveStatuses}

\* C18: with bookings made one after the other, a saveAppointment that found
\* an active record of the slot inserts no row and returns the id of that
\* record with existed = true, and however often the booking is repeated the
\* slot holds exactly one active record, with that id
C18_RepeatedBookingIsIdempotent ==
    [][\A b \in Bookers :
          /\ \A a1, a2 \in appointments' :
                (a1.status \in ActiveStatuses /\ a2.status \in ActiveStatuses
                 /\ Slot(a1) = Slot(a2)) => a1.id = a2.id
          /\ (book[b].pc = "idle" /\ book'[b].pc # "idle"
              /\ ActiveAt(appointments, book'[b]) # {})
                => book'[b].existed /\ book'[b].pc # "insert"
          /\ (book[b].existed \/ book'[b].existed) =>
                LET r == IF book'[b].existed THEN book'[b] ELSE book[b]
                IN /\ RowIds(appointments') = RowIds(appointments)
                   /\ RowIds(ActiveAt(appointments', r)) = {r.id}]_vars

\* a booking repeated after the first attempt got no event: the existing
\* record is returned and the event is about to be created for it
C18_Witness ==
    \E b \in Bookers :
        /\ book[b].existed /\ book[b].pc = "event"
        /\ RowIds(ActiveAt(appointments, book[b])) = {book[b].id}
        /\ Cardinality(appointments) = MaxAppts


\* C19: when the creation of the event fails during confirmAppointment, the
\* booking is complete in the store all the same (its record is there,
\* scheduled, with no event id, for the next retry pass to pick up) and the
\* handler goes on to send the patient the confirmation
C19_BookingSurvivesCalendarFailure ==
    \A b \in Bookers :
        book[b].calendar = "failed" =>
            /\ book[b].pc = "send"
            /\ \E a \in appointments :
                  /\ a.id = book[b].id
                  /\ Slot(a) = <<book[b].phone, book[b].date, book[b].time>>
                  /\ a.status = "scheduled"
                  /\ a.evt = 0

\* a new booking whose event could not be created
C19_Witness ==
    \E b \in Bookers :
        /\ book[b].calendar = "failed" /\ ~book[b].existed
        /\ book[b].pc = "send"


\* ---- the tokens --------------------------------------------------------------
\* C20: a gateway operation that finds its credentials stale attempts the
\* token refresh exactly once: never twice within the operation, and once
\* by the time the operation makes its call or ends, whenever there is a
\* refresh token to attempt it with
C20_RefreshOncePerOperation ==
    /\ auth.refreshes <= 1
    /\ (auth.stale /\ auth.pc \in {"call", "done"}
        /\ auth.refreshToken # "none") => auth.refreshes = 1


\* C21: when a refresh of the credentials is rejected, the gateway operation
\* ends in an error without having made its call to the provider and leaves
\* the gateway unauthenticated, so that the next operation starts with
\* authenticate()
C21_FailedRefreshFailsOperation ==
    [][/\ auth'.refreshFailed =>
             /\ ~auth'.called /\ auth'.pc # "call"
             /\ ~auth'.isAuthenticated
             /\ auth'.pc = "done" => auth'.result = "threw"
       /\ (auth.refreshFailed /\ auth.pc = "done" /\ auth'.pc # "done")
             => auth'.pc = "authenticate"]_vars

\* an operation of an authenticated gateway that found its token stale and
\* ended on the rejected refresh
C21_Witness ==
    /\ auth.refreshFailed /\ auth.refreshes = 1
    /\ auth.pc = "done" /\ auth.result = "threw"


\* ---- the patient's flows ---------------------------------------------------
\* C22: whichever operation wrote the store (a booking, a reschedule in
\* place, a calendar import), no two active records have the same
\* (phone, date, time)
C22_OneActivePerSlotAnyWriter ==
    \A a1 \in appointments :
        Cardinality(ActiveInSlot(appointments, Slot(a1))) <= 1

\* C23: the slots offered to a patient for a date do not contain the time
\* of an appointment that is confirmed and scheduled for that date, whether
\* the list came from the calendar or from the fallback
C23_BookedSlotNotOffered ==
    \A b \in Bookers :
        book[b].pc = "slots" =>
            \A a \in appointments :
                (a.status = "scheduled" /\ a.date = book[b].date)
                    => a.time \notin book[b].slots

C26_GatewayWritesConfiguredInstant ==
    \A t \in Tasks : \A i \in DOMAIN task[t].log :
        (task[t].log[i].op \in {"create", "update"} /\ task[t].log[i].ok)
        => \A e \in events : e.id = task[t].log[i].evt =>
              e.start = DbInstant(task[t].log[i].date, task[t].log[i].time)

\* the pass has diffed appointment a against its listed event e and found
\* the two at the same instant
FoundEqual(t, a, e) ==
    /\ task[t].entry = "sync" /\ Diffed(t)
    /\ a \in task[t].snap /\ e \in task[t].listing
    /\ e.id = a.evt /\ e.start = DbInstant(a.date, a.time)

\* C27: for a scheduled appointment whose event is in the listing and starts
\* exactly at the appointment's (date, time), no step of the pass makes a
\* gateway call or a store write for it, and the row and the event stay as
\* they are.
C27_MatchingPairUntouched ==
    [][\A t \in Tasks : \A a \in task[t].snap : \A e \in task[t].listing :
          FoundEqual(t, a, e) =>
              /\ \A op \in {"create", "update", "write"} :
                    NewCalls(t, a.id, op) = {}
              /\ \A i \in DOMAIN task[t].log : task[t].log[i].appt # a.id
              /\ a \in appointments => a \in appointments'
              /\ e \in events => e \in events']_vars

\* a pass at its end that did write for another appointment and found one
\* pair at the same instant
C27_Witness ==
    \E t \in Tasks :
        /\ task[t].pc = "finish" /\ task[t].log # <<>>
        /\ \E a \in task[t].snap : \E e \in task[t].listing : FoundEqual(t, a, e)

\* C28: the rows a pass works on are the rows that were scheduled with an
\* event id when it read the store; every create, update and write-back of
\* the pass is for one of them, so a row that was cancelled, completed or
\* archived at the read causes none.
C28_OnlyScheduledWithEventConsidered ==
    \A t \in Tasks : task[t].entry = "sync" =>
        /\ \A a \in task[t].snap : a.status = "scheduled" /\ a.evt # 0
        /\ \A i \in DOMAIN task[t].log :
              \E a \in task[t].snap : a.id = task[t].log[i].appt

\* a pass at its end that has written, over a store with a cancelled row
\* whose event is gone or moved
C28_Witness ==
    \E t \in Tasks :
        /\ task[t].entry = "sync" /\ task[t].pc = "finish"
        /\ task[t].log # <<>>
        /\ \E a \in appointments :
              /\ a.status = "cancelled" /\ a.evt # 0
              /\ ~\E e \in task[t].listing :
                    e.id = a.evt /\ e.start = DbInstant(a.date, a.time)

\* ---- the flag during a full sync ------------------------------------------
\* C29: every step of an admitted performFullSync pass that writes to the
\* store or to the calendar is taken while the manager's isRunning is true.
C29_FullSyncWritesWhileRunning ==
    [][\A t \in Tasks :
          (/\ task[t].entry = "full" /\ task[t].holds
           /\ task'[t] # task[t]
           /\ (appointments' # appointments \/ events' # events))
          => syncManager.isRunning]_vars

\* ---- what the store sweep deletes ----------------------------------------
\* C30: a step of the store sweep deletes no record of a non-active status
\* and no record of a slot that holds a single active record.
C30_OnlySurplusActiveDeleted ==
    [][(sweep.pc = "dbgroup" /\ sweep' # sweep) =>
          \A a \in appointments :
              (\/ a.status \notin ActiveStatuses
               \/ Cardinality(ActiveInSlot(appointments, Slot(a))) = 1)
              => a \in appointments']_vars

\* ---- convergence of the cycles -------------------------------------------
\* an event a reconciliation pass of a later cycle has created: the first
\* pass has made up for what was lost before, and nothing but the sweep
\* deletes events, so the event replaces one that a sweep deleted
RecreatedAfterSweep(e) == e.created > StartTime

\* C25: with every call succeeding and nothing else writing, the cycles of
\* reconciliation, store sweep and calendar sweep converge: from some cycle
\* on neither the store nor the calendar is written, and the calendar sweep
\* does not keep undoing what reconciliation recreates: it deletes no event
\* that reconciliation created in place of one a sweep deleted, for an
\* appointment that is scheduled and refers to it.
C25_CyclesConverge ==
    /\ <>[][UNCHANGED <<appointments, events>>]_vars
    /\ [][sweep.pc = "caldelete" =>
            \A e \in events \ events' :
                ~(/\ RecreatedAfterSweep(e)
                  /\ \E a \in ScheduledWithEvent : a.evt = e.id)]_vars

\* ---- a refused entry point -----------------------------------------------
\* C31: a call of a sync entry point whose start() returned false leaves the
\* manager as it found it: isRunning and lastRun are what they were before
\* the call, so a flag held by another pass stays set.
C31_RefusedEntryLeavesManager ==
    [][(startCalls' # <<>> /\ ~startCalls'[Len(startCalls')].ret)
          => syncManager' = startCalls'[Len(startCalls')].pre]_vars

\* ---- a booking beside the retry of unsynced appointments -----------------
\* the events made for the slot of appointment a, by the booking (start in
\* the configured zone) or by the service (start in the server's zone)
EventsFor(a) ==
    {e \in events : e.start \in {DbInstant(a.date, a.time),
                                LocalInstant(a.date, a.time)}}

\* C32: no appointment booked through confirmAppointment ever has more than
\* one calendar event created for it, also when validateAppointmentData or
\* retryFailedAppointmentSyncs runs between the INSERT of the booking and
\* its createEvent: the events of a slot never outnumber its appointments.
C32_OneEventPerBooking ==
    \A a \in appointments :
        Cardinality(EventsFor(a)) <=
            Cardinality({x \in appointments :
                            x.date = a.date /\ x.time = a.time})

\* ---- a cancellation beside a reconciliation pass -------------------------
\* C33: no step of a reconciliation pass creates an event for, or writes an
\* event id to, an appointment that is cancelled when the step is taken,
\* also when the patient cancelled after the pass had read the store.
C33_NoWriteForCancelled ==
    [][\A t \in Tasks : \A a \in appointments :
          a.status = "cancelled" =>
              \A i \in NewCalls(t, a.id, "create") \cup NewCalls(t, a.id, "write") :
                  ~task'[t].log[i].ok]_vars
\* the row of an appointment after the step
RowAfter(id) == CHOOSE a \in appointments' : a.id = id

\* the event the step created, 0 when it created none
CreatedEvent == IF nextEvt' = nextEvt THEN 0 ELSE nextEvt

RescheduleRecorded(b) ==
    /\ RowAfter(book[b].id).date = book[b].date
    /\ RowAfter(book[b].id).time = book[b].time
    /\ RowAfter(book[b].id).dur = defaultDuration
    /\ RowAfter(book[b].id).evt = CreatedEvent

Handled == inbound # NoMessage /\ inbound' = NoMessage

\* C36: when the message handled for a patient in COLLECTING_NAME is a valid
\* name (2 to 50 letters, spaces, hyphens, apostrophes, periods), the name is
\* stored for the patient and the conversation is in MAIN_MENU afterwards.
C36_ValidNameStored ==
    [][(/\ Handled
        /\ conversation_states[inbound.from].state = "collecting_name"
        /\ ValidName(Trim(inbound.body)))
          => /\ patients'[inbound.from] = Trim(inbound.body)
             /\ conversation_states'[inbound.from].state = "main_menu"]_vars

\* C37: when confirmAppointment, confirmCancellation or confirmReschedule
\* finishes, on its success path or through its catch block, the patient has
\* no conversation state left.
C37_ConversationCleared ==
    [][\A b \in Bookers :
          (/\ book[b].pc \in {"send", "sendCancelled", "sendRescheduled",
                              "error"}
           /\ book'[b].pc = "idle")
             => conversation_states'[book[b].phone] = NoConversation]_vars

\* C38: when the reply handled in SELECTING_DATE is the number of dates
\* offered plus one, the entry "Go Back to Main Menu" of the list sent, the
\* conversation is in MAIN_MENU afterwards.
C38_GoBackFromDates ==
    [][(/\ Handled
        /\ conversation_states[inbound.from].state = "selecting_date"
        /\ parseInt(Trim(inbound.body)) =
              Len(conversation_states[inbound.from].dates) + 1)
          => conversation_states'[inbound.from].state = "main_menu"]_vars

\* C39: the success count an import returns is the number of records the
\* import inserted, events without a phone included.
C39_SuccessCountsInserted ==
    [][\A t \in Tasks :
          (task[t].pc = "brepop" /\ task'[t].pc = "done" /\ ~task'[t].threw)
             => task'[t].success =
                   Cardinality(appointments' \ appointments)]_vars

====
